---- MODULE Spec2Model ----
(***************************************************************************)
(* Operator-dependency subsystem of projects/controllers/operators.py:     *)
(* the store of operators and dependency edges, the dependency             *)
(* synchronizer (update_dependencies), the cycle detector                  *)
(* (raise_if_has_cycles / has_cycles_util), dependency validation, the     *)
(* status deriver (check_status) and the list / create / update / delete   *)
(* handlers; and the task handlers of projects/controllers/tasks.py.       *)
(*                                                                         *)
(* Handlers are operators from (store, arguments) to (store, outcome);     *)
(* the actions apply them.  An exception raised by the Python code is the  *)
(* "status" of the outcome, with the store as it is when the exception     *)
(* leaves the handler.                                                     *)
(***************************************************************************)
EXTENDS Integers, Sequences, FiniteSets, TLC

\* Size of the pool of operator uuids.
MaxOps == 3
\* Longest dependency list a request carries.
MaxDepLen == 2

VARIABLES
    operators,  \* table "operators": uuid -> row (the domain is the stored uuids)
    edges,      \* table "dependencies": set of rows [uuid, operator_id, dependency]
    sync,       \* last direct update_dependencies call and the store calls it issued
    check,      \* last direct raise_if_has_cycles call and what it returned
    stat,       \* last direct check_status call and the status it derived
    tasks,      \* table "tasks": uuid -> row (the domain is the stored uuids)
    storage,    \* files written to the object storage and to Jupyter
    race        \* two update_operator requests in flight: position, request

vars == <<operators, edges, sync, check, stat, tasks, storage, race>>

----------------------------------------------------------------------------
\* Identifiers.

OpIds == 1..MaxOps
\* A uuid that names no operator; also stands for operator_id=None.
NoId == 0
ProjectIds == {"p1"}
ExperimentIds == {"e1", "e2"}
TaskIds == {"t1"}

Range(s) == {s[i] : i \in DOMAIN s}

RECURSIVE SetToSeq(_)
\* The elements of a finite set of integers in ascending order.
SetToSeq(S) ==
    IF S = {} THEN <<>>
    ELSE LET m == CHOOSE x \in S : \A y \in S : x <= y
         IN <<m>> \o SetToSeq(S \ {m})

\* uuid_alpha(): an identifier not in use; ids are opaque, the least unused
\* one stands for any fresh one.
uuid_alpha(used) == CHOOSE n \in 1..(Cardinality(used) + 1) : n \notin used

NoDuplicates(s) == \A i, j \in DOMAIN s : s[i] = s[j] => i = j

----------------------------------------------------------------------------
\* Graph store (controllers/dependencies.py, controllers/utils.py).

\* Rows of operator_id, in row order.
list_dependencies(E, operator_id) ==
    LET rows == {e \in E : e.operator_id = operator_id}
        ids == SetToSeq({e.uuid : e \in rows})
    IN [i \in DOMAIN ids |-> CHOOSE e \in rows : e.uuid = ids[i]]

\* The operators holding a row that targets operator_id, one per row.
list_next_operators(E, operator_id) ==
    LET rows == {e \in E : e.dependency = operator_id}
        ids == SetToSeq({e.uuid : e \in rows})
    IN [i \in DOMAIN ids |-> (CHOOSE e \in rows : e.uuid = ids[i]).operator_id]

create_dependency(E, operator_id, dependency) ==
    E \cup {[uuid |-> uuid_alpha({e.uuid : e \in E}),
             operator_id |-> operator_id,
             dependency |-> dependency]}

delete_dependency(E, uuid) == {e \in E : e.uuid # uuid}

raise_if_project_does_not_exist(project_id) ==
    IF project_id \in ProjectIds THEN "OK" ELSE "NotFound"

raise_if_experiment_does_not_exist(experiment_id) ==
    IF experiment_id \in ExperimentIds THEN "OK" ELSE "NotFound"

raise_if_task_does_not_exist(task_id) ==
    IF task_id \in TaskIds THEN "OK" ELSE "NotFound"

\* The operator must exist and belong to the experiment.
raise_if_operator_does_not_exist(O, operator_id, experiment_id) ==
    IF operator_id \in DOMAIN O /\ O[operator_id].experiment_id = experiment_id
    THEN "OK" ELSE "NotFound"

\* Operator.as_dict()["dependencies"]
as_dict_dependencies(E, operator_id) ==
    LET raw == list_dependencies(E, operator_id)
    IN [i \in DOMAIN raw |-> raw[i].dependency]

----------------------------------------------------------------------------
\* update_dependencies (operators.py 176-196).

CreateCall(operator_id, dependency) ==
    [call |-> "create_dependency", operator_id |-> operator_id, arg |-> dependency]
DeleteCall(uuid) ==
    [call |-> "delete_dependency", operator_id |-> NoId, arg |-> uuid]

RECURSIVE AddLoop(_, _, _, _, _)
\* for dependency in dependencies_to_add: create_dependency(...)
AddLoop(E, calls, operator_id, to_add, i) ==
    IF i > Len(to_add) THEN [edges |-> E, calls |-> calls]
    ELSE AddLoop(create_dependency(E, operator_id, to_add[i]),
                 Append(calls, CreateCall(operator_id, to_add[i])),
                 operator_id, to_add, i + 1)

\* The inner loop: the first row of dependencies_raw with that target.
FirstRowWith(dependencies_raw, dependency) ==
    LET hits == {j \in DOMAIN dependencies_raw :
                    dependencies_raw[j].dependency = dependency}
    IN dependencies_raw[CHOOSE j \in hits : \A k \in hits : j <= k]

RECURSIVE DeleteLoop(_, _, _, _, _)
\* for dependency in dependencies_to_delete: delete the row found
DeleteLoop(E, calls, dependencies_raw, to_delete, i) ==
    IF i > Len(to_delete) THEN [edges |-> E, calls |-> calls]
    ELSE LET row == FirstRowWith(dependencies_raw, to_delete[i])
         IN DeleteLoop(delete_dependency(E, row.uuid),
                       Append(calls, DeleteCall(row.uuid)),
                       dependencies_raw, to_delete, i + 1)

\* Variant of update_dependencies that adds the missing edges and removes none.
update_dependencies_mutant_no_delete(E, operator_id, new_dependencies) ==
    LET dependencies_raw == list_dependencies(E, operator_id)
        dependencies == [i \in DOMAIN dependencies_raw |-> dependencies_raw[i].dependency]
        to_add == SelectSeq(new_dependencies, LAMBDA d : d \notin Range(dependencies))
    IN AddLoop(E, <<>>, operator_id, to_add, 1)

\* Variant of update_dependencies that re-creates every requested edge and
\* deletes every stored one.
update_dependencies_mutant_recreate(E, operator_id, new_dependencies) ==
    LET dependencies_raw == list_dependencies(E, operator_id)
        dependencies == [i \in DOMAIN dependencies_raw |-> dependencies_raw[i].dependency]
        added == AddLoop(E, <<>>, operator_id, new_dependencies, 1)
    IN DeleteLoop(added.edges, added.calls, dependencies_raw, dependencies, 1)

\* Variant of update_dependencies that removes before it adds.
update_dependencies_mutant_delete_first(E, operator_id, new_dependencies) ==
    LET dependencies_raw == list_dependencies(E, operator_id)
        dependencies == [i \in DOMAIN dependencies_raw |-> dependencies_raw[i].dependency]
        dependencies_to_add ==
            SelectSeq(new_dependencies, LAMBDA d : d \notin Range(dependencies))
        dependencies_to_delete ==
            SelectSeq(dependencies, LAMBDA d : d \notin Range(new_dependencies))
        deleted == DeleteLoop(E, <<>>, dependencies_raw, dependencies_to_delete, 1)
    IN AddLoop(deleted.edges, deleted.calls, operator_id, dependencies_to_add, 1)

\* Variant of update_dependencies that creates every requested edge, stored
\* already or not.
update_dependencies_mutant_add_all(E, operator_id, new_dependencies) ==
    LET dependencies_raw == list_dependencies(E, operator_id)
        dependencies == [i \in DOMAIN dependencies_raw |-> dependencies_raw[i].dependency]
        dependencies_to_delete ==
            SelectSeq(dependencies, LAMBDA d : d \notin Range(new_dependencies))
        added == AddLoop(E, <<>>, operator_id, new_dependencies, 1)
    IN DeleteLoop(added.edges, added.calls, dependencies_raw, dependencies_to_delete, 1)

\* Variant of update_dependencies that removes the rows to a dropped target
\* whatever operator holds them.
update_dependencies_mutant_delete_any_source(E, operator_id, new_dependencies) ==
    LET dependencies_raw == list_dependencies(E, operator_id)
        dependencies == [i \in DOMAIN dependencies_raw |-> dependencies_raw[i].dependency]
        dependencies_to_add ==
            SelectSeq(new_dependencies, LAMBDA d : d \notin Range(dependencies))
        dependencies_to_delete ==
            SelectSeq(dependencies, LAMBDA d : d \notin Range(new_dependencies))
        added == AddLoop(E, <<>>, operator_id, dependencies_to_add, 1)
        deleted == DeleteLoop(added.edges, added.calls, dependencies_raw,
                              dependencies_to_delete, 1)
    IN [edges |-> {e \in deleted.edges : e.dependency \notin Range(dependencies_to_delete)},
        calls |-> deleted.calls]

update_dependencies(E, operator_id, new_dependencies) ==
    LET dependencies_raw == list_dependencies(E, operator_id)
        dependencies == [i \in DOMAIN dependencies_raw |-> dependencies_raw[i].dependency]
        dependencies_to_add ==
            SelectSeq(new_dependencies, LAMBDA d : d \notin Range(dependencies))
        dependencies_to_delete ==
            SelectSeq(dependencies, LAMBDA d : d \notin Range(new_dependencies))
        added == AddLoop(E, <<>>, operator_id, dependencies_to_add, 1)
    IN DeleteLoop(added.edges, added.calls, dependencies_raw, dependencies_to_delete, 1)

----------------------------------------------------------------------------
\* Request values.

\* A Python value: its type name and, for a string, its text.
PyValue(type, text) == [type |-> type, text |-> text]
ValidParameterTypes == {"str", "int", "float", "bool", "list", "dict"}

\* The "parameters" argument: absent (None), not a dict, or a dict.
ParametersAbsent == [given |-> FALSE, isdict |-> FALSE, items |-> <<>>]
ParametersNotADict == [given |-> TRUE, isdict |-> FALSE, items |-> <<>>]
ParametersDict(items) == [given |-> TRUE, isdict |-> TRUE, items |-> items]
EmptyDict == <<>>
ParameterArgs ==
    {ParametersAbsent, ParametersNotADict, ParametersDict(EmptyDict),
     ParametersDict([k \in {"p"} |-> PyValue("NoneType", "")])}

\* The "dependencies" argument: absent (None), not a list, or a list of ids.
DependenciesAbsent == [kind |-> "absent", list |-> <<>>]
DependenciesNotAList == [kind |-> "notlist", list |-> <<>>]
DependenciesList(l) == [kind |-> "list", list |-> l]
DepLists == UNION {[1..n -> OpIds \cup {NoId}] : n \in 0..MaxDepLen}
DependencyArgs ==
    {DependenciesAbsent, DependenciesNotAList} \cup {DependenciesList(l) : l \in DepLists}

\* The remaining keyword arguments of update_operator: column names the
\* operators table has ("valid", e.g. position_x) or not ("invalid").
FieldArgs == {"valid", "invalid"}

RequestProjectIds == ProjectIds \cup {"px"}
RequestExperimentIds == ExperimentIds \cup {"ex"}
\* task_id: a task, an unknown task id, or not a string
RequestTaskIds == TaskIds \cup {"tx", "None"}
RequestOpIds == OpIds \cup {NoId}

----------------------------------------------------------------------------
\* Cycle detector (operators.py 262-304).

\* list_operators(...) as read by raise_if_has_cycles: the uuids of the
\* experiment's operators, in row order.
list_operators(O, experiment_id) ==
    SetToSeq({u \in DOMAIN O : O[u].experiment_id = experiment_id})

RECURSIVE has_cycles_util(_, _, _, _, _, _)
RECURSIVE NeighbourLoop(_, _, _, _, _, _, _)

\* for neighbour in dependencies: ...  ret is "True", "False" or "KeyError"
\* (visited[neighbour] for an id that is no key of the dict).
NeighbourLoop(E, dependencies, i, visited, recursion_stack, new_dependencies, new_dependencies_op) ==
    IF i > Len(dependencies)
    THEN [ret |-> "False", visited |-> visited, recursion_stack |-> recursion_stack]
    ELSE LET neighbour == dependencies[i]
         IN IF neighbour \notin DOMAIN visited
            THEN [ret |-> "KeyError", visited |-> visited,
                  recursion_stack |-> recursion_stack]
            ELSE IF visited[neighbour] = FALSE
            THEN LET r == has_cycles_util(E, neighbour, visited, recursion_stack,
                                          new_dependencies, new_dependencies_op)
                 IN IF r.ret # "False" THEN r
                    ELSE IF r.recursion_stack[neighbour]
                    THEN [r EXCEPT !.ret = "True"]
                    ELSE NeighbourLoop(E, dependencies, i + 1, r.visited,
                                       r.recursion_stack, new_dependencies,
                                       new_dependencies_op)
            ELSE IF recursion_stack[neighbour]
            THEN [ret |-> "True", visited |-> visited,
                  recursion_stack |-> recursion_stack]
            ELSE NeighbourLoop(E, dependencies, i + 1, visited, recursion_stack,
                               new_dependencies, new_dependencies_op)

\* Variant of has_cycles_util that leaves the operator on the recursion stack
\* when it returns.
has_cycles_util_mutant_no_unwind(E, operator_id, visited, recursion_stack, new_dependencies, new_dependencies_op) ==
    LET visited1 == [visited EXCEPT ![operator_id] = TRUE]
        stack1 == [recursion_stack EXCEPT ![operator_id] = TRUE]
        stored == as_dict_dependencies(E, operator_id)
        dependencies ==
            IF operator_id = new_dependencies_op
            THEN stored \o SetToSeq(Range(new_dependencies) \ Range(stored))
            ELSE stored
    IN NeighbourLoop(E, dependencies, 1, visited1, stack1,
                     new_dependencies, new_dependencies_op)

has_cycles_util(E, operator_id, visited, recursion_stack, new_dependencies, new_dependencies_op) ==
    LET visited1 == [visited EXCEPT ![operator_id] = TRUE]
        stack1 == [recursion_stack EXCEPT ![operator_id] = TRUE]
        stored == as_dict_dependencies(E, operator_id)
        dependencies ==
            IF operator_id = new_dependencies_op
            THEN stored \o SetToSeq(Range(new_dependencies) \ Range(stored))
            ELSE stored
        r == NeighbourLoop(E, dependencies, 1, visited1, stack1,
                           new_dependencies, new_dependencies_op)
    IN IF r.ret # "False" THEN r
       ELSE [r EXCEPT !.recursion_stack[operator_id] = FALSE]

\* Variant of the loop of raise_if_has_cycles that searches from the first
\* listed operator only.
OperatorLoop_mutant_first_only(E, ops, i, visited, recursion_stack, dependencies, operator_id) ==
    IF i > Len(ops) THEN "False"
    ELSE LET r == has_cycles_util(E, ops[i], visited, recursion_stack,
                                  dependencies, operator_id)
         IN IF r.ret = "True" THEN "BadRequest"
            ELSE IF r.ret = "KeyError" THEN "KeyError"
            ELSE "False"

RECURSIVE OperatorLoop(_, _, _, _, _, _, _)
\* for op in operators: if visited[op] is False and has_cycles_util(...)
OperatorLoop(E, ops, i, visited, recursion_stack, dependencies, operator_id) ==
    IF i > Len(ops) THEN "False"
    ELSE IF visited[ops[i]] = FALSE
    THEN LET r == has_cycles_util(E, ops[i], visited, recursion_stack,
                                  dependencies, operator_id)
         IN IF r.ret = "True" THEN "BadRequest"
            ELSE IF r.ret = "KeyError" THEN "KeyError"
            ELSE OperatorLoop(E, ops, i + 1, r.visited, r.recursion_stack,
                              dependencies, operator_id)
    ELSE OperatorLoop(E, ops, i + 1, visited, recursion_stack,
                      dependencies, operator_id)

\* Variant of raise_if_has_cycles that never finds a cycle.
raise_if_has_cycles_mutant_never(O, E, experiment_id, operator_id, dependencies) ==
    "False"

\* Variant of raise_if_has_cycles that searches the stored edges only,
\* without the requested list.
raise_if_has_cycles_mutant_stored_only(O, E, experiment_id, operator_id, dependencies) ==
    LET ops == list_operators(O, experiment_id)
        visited == [u \in Range(ops) |-> FALSE]
        recursion_stack == [u \in Range(ops) |-> FALSE]
    IN OperatorLoop(E, ops, 1, visited, recursion_stack, <<>>, NoId)

\* "False" (returned), "BadRequest" (Cyclical dependencies) or "KeyError".
raise_if_has_cycles(O, E, experiment_id, operator_id, dependencies) ==
    LET ops == list_operators(O, experiment_id)
        visited == [u \in Range(ops) |-> FALSE]
        recursion_stack == [u \in Range(ops) |-> FALSE]
    IN OperatorLoop(E, ops, 1, visited, recursion_stack, dependencies, operator_id)

----------------------------------------------------------------------------
\* Validation (operators.py 220-259).

Verdict(status, reason) == [status |-> status, reason |-> reason]
Passed == Verdict("OK", "")

\* Variant of raise_if_parameters_are_invalid without the check of the values.
raise_if_parameters_are_invalid_mutant_no_value_check(parameters) ==
    IF ~parameters.isdict THEN Verdict("BadRequest", "parameters")
    ELSE Passed

raise_if_parameters_are_invalid(parameters) ==
    IF ~parameters.isdict THEN Verdict("BadRequest", "parameters")
    ELSE IF \E k \in DOMAIN parameters.items :
                parameters.items[k].type \notin ValidParameterTypes
    THEN Verdict("BadRequest", "parameters")
    ELSE Passed

RECURSIVE DependencyLoop(_, _, _, _, _)
\* for d in dependencies: existence of d, then d == operator_id
DependencyLoop(O, experiment_id, dependencies, operator_id, i) ==
    IF i > Len(dependencies) THEN Passed
    ELSE IF raise_if_operator_does_not_exist(O, dependencies[i], experiment_id) # "OK"
    THEN Verdict("BadRequest", "existence")
    ELSE IF dependencies[i] = operator_id
    THEN Verdict("BadRequest", "self")
    ELSE DependencyLoop(O, experiment_id, dependencies, operator_id, i + 1)

\* Variant of raise_if_dependencies_are_invalid without the duplicate check.
raise_if_dependencies_are_invalid_mutant_no_duplicates(O, E, experiment_id, dependencies, operator_id) ==
    IF dependencies.kind # "list" THEN Verdict("BadRequest", "shape")
    ELSE LET each == DependencyLoop(O, experiment_id, dependencies.list, operator_id, 1)
         IN IF each.status # "OK" THEN each
            ELSE LET cyc == raise_if_has_cycles(O, E, experiment_id, operator_id,
                                                dependencies.list)
                 IN IF cyc = "False" THEN Passed
                    ELSE IF cyc = "BadRequest" THEN Verdict("BadRequest", "cycle")
                    ELSE Verdict("KeyError", "cycle")

raise_if_dependencies_are_invalid(O, E, experiment_id, dependencies, operator_id) ==
    IF dependencies.kind # "list" THEN Verdict("BadRequest", "shape")
    ELSE IF Len(dependencies.list) # Cardinality(Range(dependencies.list))
    THEN Verdict("BadRequest", "duplicates")
    ELSE LET each == DependencyLoop(O, experiment_id, dependencies.list, operator_id, 1)
         IN IF each.status # "OK" THEN each
            ELSE LET cyc == raise_if_has_cycles(O, E, experiment_id, operator_id,
                                                dependencies.list)
                 IN IF cyc = "False" THEN Passed
                    ELSE IF cyc = "BadRequest" THEN Verdict("BadRequest", "cycle")
                    ELSE Verdict("KeyError", "cycle")

----------------------------------------------------------------------------
\* delete_dependencies (operators.py 199-217).

\* list.remove(x): drops the first occurrence.
ListRemove(l, x) ==
    LET hits == {j \in DOMAIN l : l[j] = x}
        at == CHOOSE j \in hits : \A k \in hits : j <= k
    IN [i \in 1..(Len(l) - 1) |-> IF i < at THEN l[i] ELSE l[i + 1]]

\* dependencies + list(set(op_dependencies) - set(dependencies))
SpliceList(dependencies, op_dependencies) ==
    dependencies \o SetToSeq(Range(op_dependencies) \ Range(dependencies))

RECURSIVE NextOperatorLoop(_, _, _, _, _)
\* for op in next_operators: ...   ValueError when remove() finds no operator_id
NextOperatorLoop(E, next_operators, i, operator_id, dependencies) ==
    IF i > Len(next_operators) THEN [edges |-> E, status |-> "OK"]
    ELSE LET op == next_operators[i]
             op_dependencies == as_dict_dependencies(E, op)
             new_dependencies == SpliceList(dependencies, op_dependencies)
         IN IF operator_id \notin Range(new_dependencies)
            THEN [edges |-> E, status |-> "ValueError"]
            ELSE NextOperatorLoop(
                    update_dependencies(E, op,
                        ListRemove(new_dependencies, operator_id)).edges,
                    next_operators, i + 1, operator_id, dependencies)

RECURSIVE NextOperatorCalls(_, _, _, _, _)
\* The store calls of the loop over the next operators, in the order issued.
NextOperatorCalls(E, next_operators, i, operator_id, dependencies) ==
    IF i > Len(next_operators) THEN <<>>
    ELSE LET op == next_operators[i]
             op_dependencies == as_dict_dependencies(E, op)
             new_dependencies == SpliceList(dependencies, op_dependencies)
         IN IF operator_id \notin Range(new_dependencies) THEN <<>>
            ELSE LET u == update_dependencies(E, op,
                              ListRemove(new_dependencies, operator_id))
                 IN u.calls \o NextOperatorCalls(u.edges, next_operators, i + 1,
                                                 operator_id, dependencies)

\* The store calls of delete_dependencies: those of the loop, then those of
\* update_dependencies(operator_id, []).
delete_dependencies_calls(E, operator_id, dependencies) ==
    LET next_operators == list_next_operators(E, operator_id)
        spliced == NextOperatorLoop(E, next_operators, 1, operator_id, dependencies)
        calls == NextOperatorCalls(E, next_operators, 1, operator_id, dependencies)
    IN IF spliced.status # "OK" THEN calls
       ELSE calls \o update_dependencies(spliced.edges, operator_id, <<>>).calls

\* Variant of delete_dependencies that drops the consumers' edge to the
\* deleted operator without handing them its dependencies.
delete_dependencies_mutant_no_splice(E, operator_id, dependencies) ==
    LET spliced == NextOperatorLoop(E, list_next_operators(E, operator_id), 1,
                                    operator_id, <<>>)
    IN IF spliced.status # "OK" THEN spliced
       ELSE [edges |-> update_dependencies(spliced.edges, operator_id, <<>>).edges,
             status |-> "OK"]

\* Variant of delete_dependencies that rewires only the first consumer of the
\* deleted operator.
delete_dependencies_mutant_first_consumer(E, operator_id, dependencies) ==
    LET next_operators == list_next_operators(E, operator_id)
        first == IF next_operators = <<>> THEN <<>> ELSE <<next_operators[1]>>
        spliced == NextOperatorLoop(E, first, 1, operator_id, dependencies)
    IN IF spliced.status # "OK" THEN spliced
       ELSE [edges |-> update_dependencies(spliced.edges, operator_id, <<>>).edges,
             status |-> "OK"]

delete_dependencies(E, operator_id, dependencies) ==
    LET spliced == NextOperatorLoop(E, list_next_operators(E, operator_id), 1,
                                    operator_id, dependencies)
    IN IF spliced.status # "OK" THEN spliced
       ELSE [edges |-> update_dependencies(spliced.edges, operator_id, <<>>).edges,
             status |-> "OK"]

----------------------------------------------------------------------------
\* Status deriver (operators.py 307-327).

VALID_TAGS == <<"DATASETS", "DEFAULT", "DESCRIPTIVE_STATISTICS", "FEATURE_ENGINEERING", "PREDICTOR">>

\* The rows of table "tasks" the operators refer to, each with the names of
\* the parameters its notebook declares (what list_parameters reads).
TaskTable ==
    [t \in TaskIds |-> [tags |-> <<"DEFAULT">>, parameters |-> <<"dataset", "p">>]]

\* list_parameters(task_id): the declared parameters, by name.
list_parameters(task_id) == TaskTable[task_id].parameters

\* parameters[key] != ''
Filled(value) == value # PyValue("str", "")

\* Variant of check_status that counts the schema's 'dataset' parameter too.
check_status_mutant_counts_dataset(parameters, tags, all_comp_params) ==
    LET total_op_params == Cardinality({key \in DOMAIN parameters : Filled(parameters[key])})
    IN IF "DATASETS" \notin Range(tags)
       THEN IF total_op_params = Len(all_comp_params) THEN "Setted up" ELSE "Unset"
       ELSE IF total_op_params = 1 THEN "Setted up" ELSE "Unset"

\* check_status(operator), given operator.parameters, the tags of the
\* operator's task and list_parameters(operator.task_id); the value is what
\* it assigns to operator.status.
check_status(parameters, tags, all_comp_params) ==
    LET op_params_keys == {key \in DOMAIN parameters : Filled(parameters[key])}
        total_op_params == Cardinality(op_params_keys)
    IN IF "DATASETS" \notin Range(tags)
       THEN LET comp_params == SelectSeq(all_comp_params, LAMBDA name : name # "dataset")
                total_comp_params == Len(comp_params)
            IN IF total_op_params = total_comp_params THEN "Setted up" ELSE "Unset"
       ELSE IF total_op_params = 1 THEN "Setted up" ELSE "Unset"

\* check_status on a stored operator row.
operator_status(row) ==
    check_status(row.parameters, TaskTable[row.task_id].tags, list_parameters(row.task_id))

----------------------------------------------------------------------------
\* Handlers (operators.py 47-173).

\* What a handler leaves behind: the store, the exception class it raised
\* ("OK" when it returned) and which check raised it; for create_operator
\* also the new uuid and the "dependencies" field of the response; for
\* create_operator and update_operator the "status" field of the response.
Outcome(O, E, status, reason) ==
    [operators |-> O, edges |-> E, status |-> status, reason |-> reason,
     uuid |-> NoId, dependencies |-> <<>>, as_dict_status |-> ""]

OperatorRow(experiment_id, task_id, parameters) ==
    [experiment_id |-> experiment_id, task_id |-> task_id, parameters |-> parameters]

\* Variant of create_operator that lets the NotFound of the task lookup through.
create_operator_mutant_task_not_found(O, E, project_id, experiment_id, task_id, parameters, dependencies) ==
    IF raise_if_project_does_not_exist(project_id) # "OK"
    THEN Outcome(O, E, "NotFound", "project")
    ELSE IF raise_if_experiment_does_not_exist(experiment_id) # "OK"
    THEN Outcome(O, E, "NotFound", "experiment")
    ELSE IF task_id = "None"
    THEN Outcome(O, E, "BadRequest", "taskId")
    ELSE IF raise_if_task_does_not_exist(task_id) # "OK"
    THEN Outcome(O, E, "NotFound", "task")
    ELSE
    LET params == IF parameters.given THEN parameters ELSE ParametersDict(EmptyDict)
        deps == IF dependencies.kind = "absent" THEN DependenciesList(<<>>)
                ELSE dependencies
        pv == raise_if_parameters_are_invalid(params)
        dv == raise_if_dependencies_are_invalid(O, E, experiment_id, deps, NoId)
        uuid == uuid_alpha(DOMAIN O \cup {e.operator_id : e \in E}
                                    \cup {e.dependency : e \in E})
        O1 == (uuid :> OperatorRow(experiment_id, task_id, params.items)) @@ O
    IN IF pv.status # "OK" THEN Outcome(O, E, pv.status, pv.reason)
       ELSE IF dv.status # "OK" THEN Outcome(O, E, dv.status, dv.reason)
       ELSE [operators |-> O1,
             edges |-> update_dependencies(E, uuid, deps.list).edges,
             status |-> "OK", reason |-> "",
             uuid |-> uuid, dependencies |-> deps.list,
             as_dict_status |-> operator_status(O1[uuid])]

\* Variant of create_operator that answers with the dependencies the operator
\* had when it was read back, before its edges were created.
create_operator_mutant_stale_dependencies(O, E, project_id, experiment_id, task_id, parameters, dependencies) ==
    IF raise_if_project_does_not_exist(project_id) # "OK"
    THEN Outcome(O, E, "NotFound", "project")
    ELSE IF raise_if_experiment_does_not_exist(experiment_id) # "OK"
    THEN Outcome(O, E, "NotFound", "experiment")
    ELSE IF task_id = "None"
    THEN Outcome(O, E, "BadRequest", "taskId")
    ELSE IF raise_if_task_does_not_exist(task_id) # "OK"
    THEN Outcome(O, E, "BadRequest", "task")
    ELSE
    LET params == IF parameters.given THEN parameters ELSE ParametersDict(EmptyDict)
        deps == IF dependencies.kind = "absent" THEN DependenciesList(<<>>)
                ELSE dependencies
        pv == raise_if_parameters_are_invalid(params)
        dv == raise_if_dependencies_are_invalid(O, E, experiment_id, deps, NoId)
        uuid == uuid_alpha(DOMAIN O \cup {e.operator_id : e \in E}
                                    \cup {e.dependency : e \in E})
        O1 == (uuid :> OperatorRow(experiment_id, task_id, params.items)) @@ O
    IN IF pv.status # "OK" THEN Outcome(O, E, pv.status, pv.reason)
       ELSE IF dv.status # "OK" THEN Outcome(O, E, dv.status, dv.reason)
       ELSE [operators |-> O1,
             edges |-> update_dependencies(E, uuid, deps.list).edges,
             status |-> "OK", reason |-> "",
             uuid |-> uuid, dependencies |-> as_dict_dependencies(E, uuid),
             as_dict_status |-> operator_status(O1[uuid])]

create_operator(O, E, project_id, experiment_id, task_id, parameters, dependencies) ==
    IF raise_if_project_does_not_exist(project_id) # "OK"
    THEN Outcome(O, E, "NotFound", "project")
    ELSE IF raise_if_experiment_does_not_exist(experiment_id) # "OK"
    THEN Outcome(O, E, "NotFound", "experiment")
    ELSE IF task_id = "None"
    THEN Outcome(O, E, "BadRequest", "taskId")
    ELSE IF raise_if_task_does_not_exist(task_id) # "OK"
    THEN Outcome(O, E, "BadRequest", "task")
    ELSE
    LET params == IF parameters.given THEN parameters ELSE ParametersDict(EmptyDict)
        deps == IF dependencies.kind = "absent" THEN DependenciesList(<<>>)
                ELSE dependencies
        pv == raise_if_parameters_are_invalid(params)
        dv == raise_if_dependencies_are_invalid(O, E, experiment_id, deps, NoId)
        uuid == uuid_alpha(DOMAIN O \cup {e.operator_id : e \in E}
                                    \cup {e.dependency : e \in E})
        O1 == (uuid :> OperatorRow(experiment_id, task_id, params.items)) @@ O
    IN IF pv.status # "OK" THEN Outcome(O, E, pv.status, pv.reason)
       ELSE IF dv.status # "OK" THEN Outcome(O, E, dv.status, dv.reason)
       ELSE [operators |-> O1,
             edges |-> update_dependencies(E, uuid, deps.list).edges,
             status |-> "OK", reason |-> "",
             uuid |-> uuid, dependencies |-> deps.list,
             as_dict_status |-> operator_status(O1[uuid])]

AddOperatorCall(uuid) == [call |-> "add_operator", operator_id |-> uuid, arg |-> NoId]

\* The store writes of create_operator in the order it issues them (lines
\* 87-99): the operator row, then the calls of update_dependencies.
create_operator_calls(O, E, project_id, experiment_id, task_id, parameters, dependencies) ==
    LET r == create_operator(O, E, project_id, experiment_id, task_id, parameters,
                             dependencies)
    IN IF r.status # "OK" THEN <<>>
       ELSE <<AddOperatorCall(r.uuid)>>
            \o update_dependencies(E, r.uuid, r.dependencies).calls

Kwargs(parameters, dependencies, fields) ==
    [parameters |-> parameters, dependencies |-> dependencies, fields |-> fields]

\* Variant of update_operator that synchronizes the edges before the
\* dependency validation has passed.
update_operator_mutant_write_first(O, E, uuid, project_id, experiment_id, kwargs) ==
    IF raise_if_project_does_not_exist(project_id) # "OK"
    THEN Outcome(O, E, "NotFound", "project")
    ELSE IF raise_if_experiment_does_not_exist(experiment_id) # "OK"
    THEN Outcome(O, E, "NotFound", "experiment")
    ELSE IF uuid \notin DOMAIN O
    THEN Outcome(O, E, "NotFound", "operator")
    ELSE
    LET params == IF kwargs.parameters.given THEN kwargs.parameters
                  ELSE ParametersDict(EmptyDict)
        pv == raise_if_parameters_are_invalid(params)
        dv == IF kwargs.dependencies.kind = "absent" THEN Passed
              ELSE raise_if_dependencies_are_invalid(O, E, experiment_id,
                                                     kwargs.dependencies, uuid)
        E1 == IF kwargs.dependencies.kind # "list" THEN E
              ELSE update_dependencies(E, uuid, kwargs.dependencies.list).edges
        O1 == IF kwargs.parameters.given
              THEN [O EXCEPT ![uuid].parameters = params.items]
              ELSE O
    IN IF pv.status # "OK" THEN Outcome(O, E, pv.status, pv.reason)
       ELSE IF dv.status # "OK" THEN Outcome(O, E1, dv.status, dv.reason)
       ELSE IF kwargs.fields = "invalid" THEN Outcome(O, E1, "BadRequest", "fields")
       ELSE Outcome(O1, E1, "OK", "")

\* Variant of update_operator that derives the status from the operator as
\* it was read before the update.
update_operator_mutant_stale_status(O, E, uuid, project_id, experiment_id, kwargs) ==
    IF raise_if_project_does_not_exist(project_id) # "OK"
    THEN Outcome(O, E, "NotFound", "project")
    ELSE IF raise_if_experiment_does_not_exist(experiment_id) # "OK"
    THEN Outcome(O, E, "NotFound", "experiment")
    ELSE IF uuid \notin DOMAIN O
    THEN Outcome(O, E, "NotFound", "operator")
    ELSE
    LET params == IF kwargs.parameters.given THEN kwargs.parameters
                  ELSE ParametersDict(EmptyDict)
        pv == raise_if_parameters_are_invalid(params)
        dv == IF kwargs.dependencies.kind = "absent" THEN Passed
              ELSE raise_if_dependencies_are_invalid(O, E, experiment_id,
                                                     kwargs.dependencies, uuid)
        E1 == IF kwargs.dependencies.kind = "absent" THEN E
              ELSE update_dependencies(E, uuid, kwargs.dependencies.list).edges
        O1 == IF kwargs.parameters.given
              THEN [O EXCEPT ![uuid].parameters = params.items]
              ELSE O
    IN IF pv.status # "OK" THEN Outcome(O, E, pv.status, pv.reason)
       ELSE IF dv.status # "OK" THEN Outcome(O, E, dv.status, dv.reason)
       ELSE IF kwargs.fields = "invalid" THEN Outcome(O, E1, "BadRequest", "fields")
       ELSE [Outcome(O1, E1, "OK", "") EXCEPT !.as_dict_status = operator_status(O[uuid])]

\* Variant of update_operator that treats a missing dependency list as the
\* empty list when it synchronises the edges.
update_operator_mutant_absent_is_empty(O, E, uuid, project_id, experiment_id, kwargs) ==
    IF raise_if_project_does_not_exist(project_id) # "OK"
    THEN Outcome(O, E, "NotFound", "project")
    ELSE IF raise_if_experiment_does_not_exist(experiment_id) # "OK"
    THEN Outcome(O, E, "NotFound", "experiment")
    ELSE IF uuid \notin DOMAIN O
    THEN Outcome(O, E, "NotFound", "operator")
    ELSE
    LET params == IF kwargs.parameters.given THEN kwargs.parameters
                  ELSE ParametersDict(EmptyDict)
        pv == raise_if_parameters_are_invalid(params)
        dv == IF kwargs.dependencies.kind = "absent" THEN Passed
              ELSE raise_if_dependencies_are_invalid(O, E, experiment_id,
                                                     kwargs.dependencies, uuid)
        E1 == IF FALSE THEN E
              ELSE update_dependencies(E, uuid, kwargs.dependencies.list).edges
        O1 == IF kwargs.parameters.given
              THEN [O EXCEPT ![uuid].parameters = params.items]
              ELSE O
    IN IF pv.status # "OK" THEN Outcome(O, E, pv.status, pv.reason)
       ELSE IF dv.status # "OK" THEN Outcome(O, E, dv.status, dv.reason)
       ELSE IF kwargs.fields = "invalid" THEN Outcome(O, E1, "BadRequest", "fields")
       ELSE [Outcome(O1, E1, "OK", "") EXCEPT !.as_dict_status = operator_status(O1[uuid])]

update_operator(O, E, uuid, project_id, experiment_id, kwargs) ==
    IF raise_if_project_does_not_exist(project_id) # "OK"
    THEN Outcome(O, E, "NotFound", "project")
    ELSE IF raise_if_experiment_does_not_exist(experiment_id) # "OK"
    THEN Outcome(O, E, "NotFound", "experiment")
    ELSE IF uuid \notin DOMAIN O
    THEN Outcome(O, E, "NotFound", "operator")
    ELSE
    LET params == IF kwargs.parameters.given THEN kwargs.parameters
                  ELSE ParametersDict(EmptyDict)
        pv == raise_if_parameters_are_invalid(params)
        dv == IF kwargs.dependencies.kind = "absent" THEN Passed
              ELSE raise_if_dependencies_are_invalid(O, E, experiment_id,
                                                     kwargs.dependencies, uuid)
        E1 == IF kwargs.dependencies.kind = "absent" THEN E
              ELSE update_dependencies(E, uuid, kwargs.dependencies.list).edges
        O1 == IF kwargs.parameters.given
              THEN [O EXCEPT ![uuid].parameters = params.items]
              ELSE O
    IN IF pv.status # "OK" THEN Outcome(O, E, pv.status, pv.reason)
       ELSE IF dv.status # "OK" THEN Outcome(O, E, dv.status, dv.reason)
       ELSE IF kwargs.fields = "invalid" THEN Outcome(O, E1, "BadRequest", "fields")
       ELSE [Outcome(O1, E1, "OK", "") EXCEPT !.as_dict_status = operator_status(O1[uuid])]

\* Variant of update_operator_validate that leaves out the dependency
\* validation.
update_operator_validate_mutant_unchecked(O, E, uuid, project_id, experiment_id, kwargs) ==
    IF raise_if_project_does_not_exist(project_id) # "OK"
    THEN Verdict("NotFound", "project")
    ELSE IF raise_if_experiment_does_not_exist(experiment_id) # "OK"
    THEN Verdict("NotFound", "experiment")
    ELSE IF uuid \notin DOMAIN O
    THEN Verdict("NotFound", "operator")
    ELSE raise_if_parameters_are_invalid(
            IF kwargs.parameters.given THEN kwargs.parameters
            ELSE ParametersDict(EmptyDict))

\* update_operator up to the end of its validation (lines 118-130): the
\* verdict on the store as the request reads it.
update_operator_validate(O, E, uuid, project_id, experiment_id, kwargs) ==
    IF raise_if_project_does_not_exist(project_id) # "OK"
    THEN Verdict("NotFound", "project")
    ELSE IF raise_if_experiment_does_not_exist(experiment_id) # "OK"
    THEN Verdict("NotFound", "experiment")
    ELSE IF uuid \notin DOMAIN O
    THEN Verdict("NotFound", "operator")
    ELSE
    LET params == IF kwargs.parameters.given THEN kwargs.parameters
                  ELSE ParametersDict(EmptyDict)
        pv == raise_if_parameters_are_invalid(params)
    IN IF pv.status # "OK" THEN pv
       ELSE IF kwargs.dependencies.kind = "absent" THEN Passed
       ELSE raise_if_dependencies_are_invalid(O, E, experiment_id,
                                              kwargs.dependencies, uuid)

\* update_operator from update_dependencies on (lines 131-145), on the
\* store as it is when the request gets there.
update_operator_write(O, E, uuid, kwargs) ==
    LET E1 == IF kwargs.dependencies.kind = "absent" THEN E
              ELSE update_dependencies(E, uuid, kwargs.dependencies.list).edges
        O1 == IF kwargs.parameters.given /\ uuid \in DOMAIN O
              THEN [O EXCEPT ![uuid].parameters = kwargs.parameters.items]
              ELSE O
    IN IF kwargs.fields = "invalid" THEN Outcome(O, E1, "BadRequest", "fields")
       ELSE Outcome(O1, E1, "OK", "")

\* Variant of list_operators that stores each operator's parameters without
\* the empty ones.
list_operators_handler_mutant_stores(O, E, project_id, experiment_id) ==
    IF raise_if_project_does_not_exist(project_id) # "OK"
    THEN [operators |-> O, edges |-> E, status |-> "NotFound", reason |-> "project",
          response |-> <<>>]
    ELSE IF raise_if_experiment_does_not_exist(experiment_id) # "OK"
    THEN [operators |-> O, edges |-> E, status |-> "NotFound", reason |-> "experiment",
          response |-> <<>>]
    ELSE LET rows == list_operators(O, experiment_id)
         IN [operators |-> [u \in DOMAIN O |->
                               [O[u] EXCEPT !.parameters =
                                   [k \in {key \in DOMAIN O[u].parameters :
                                               Filled(O[u].parameters[key])}
                                       |-> O[u].parameters[k]]]],
             edges |-> E, status |-> "OK", reason |-> "",
             response |-> [i \in DOMAIN rows |->
                             [uuid |-> rows[i],
                              parameters |-> O[rows[i]].parameters,
                              dependencies |-> as_dict_dependencies(E, rows[i]),
                              status |-> operator_status(O[rows[i]])]]]

\* list_operators as a request: what it leaves behind and the operators it
\* returns, each with the status check_status gave it.
list_operators_handler(O, E, project_id, experiment_id) ==
    IF raise_if_project_does_not_exist(project_id) # "OK"
    THEN [operators |-> O, edges |-> E, status |-> "NotFound", reason |-> "project",
          response |-> <<>>]
    ELSE IF raise_if_experiment_does_not_exist(experiment_id) # "OK"
    THEN [operators |-> O, edges |-> E, status |-> "NotFound", reason |-> "experiment",
          response |-> <<>>]
    ELSE LET rows == list_operators(O, experiment_id)
         IN [operators |-> O, edges |-> E, status |-> "OK", reason |-> "",
             response |-> [i \in DOMAIN rows |->
                             [uuid |-> rows[i],
                              parameters |-> O[rows[i]].parameters,
                              dependencies |-> as_dict_dependencies(E, rows[i]),
                              status |-> operator_status(O[rows[i]])]]]

\* raise_if_has_cycles as a call on the store: what it leaves behind, and
\* "False" (returned) or the exception it raised.  Its first statement is
\* list_operators(project_id, experiment_id).
raise_if_has_cycles_call(O, E, project_id, experiment_id, operator_id, dependencies) ==
    LET l == list_operators_handler(O, E, project_id, experiment_id)
    IN [operators |-> l.operators, edges |-> l.edges,
        status |-> IF l.status # "OK" THEN l.status
                   ELSE raise_if_has_cycles(l.operators, l.edges, experiment_id,
                                            operator_id, dependencies)]

\* Variant of delete_operator without the lookup of the operator.
delete_operator_mutant_no_lookup(O, E, uuid, project_id, experiment_id) ==
    IF raise_if_project_does_not_exist(project_id) # "OK"
    THEN Outcome(O, E, "NotFound", "project")
    ELSE IF raise_if_experiment_does_not_exist(experiment_id) # "OK"
    THEN Outcome(O, E, "NotFound", "experiment")
    ELSE
    LET d == delete_dependencies(E, uuid, as_dict_dependencies(E, uuid))
    IN IF d.status # "OK" THEN Outcome(O, d.edges, d.status, "remove")
       ELSE Outcome([u \in DOMAIN O \ {uuid} |-> O[u]], d.edges, "OK", "")

delete_operator(O, E, uuid, project_id, experiment_id) ==
    IF raise_if_project_does_not_exist(project_id) # "OK"
    THEN Outcome(O, E, "NotFound", "project")
    ELSE IF raise_if_experiment_does_not_exist(experiment_id) # "OK"
    THEN Outcome(O, E, "NotFound", "experiment")
    ELSE IF uuid \notin DOMAIN O
    THEN Outcome(O, E, "NotFound", "operator")
    ELSE
    LET d == delete_dependencies(E, uuid, as_dict_dependencies(E, uuid))
    IN IF d.status # "OK" THEN Outcome(O, d.edges, d.status, "remove")
       ELSE Outcome([u \in DOMAIN O \ {uuid} |-> O[u]], d.edges, "OK", "")

----------------------------------------------------------------------------
\* The service: requests executed one at a time.

\* Neither store holds a file.
NoFiles == [minio |-> {}, jupyter |-> {}]
StatIdle == [done |-> FALSE, parameters |-> <<>>, tags |-> <<>>,
             comp_params |-> <<>>, status |-> ""]
RaceIdle == [pc |-> <<>>, request |-> <<>>, overlap |-> FALSE]
SyncIdle == [done |-> FALSE, operator_id |-> NoId, new_dependencies |-> <<>>,
             before |-> {}, calls |-> <<>>]
CheckIdle == [done |-> FALSE, operator_id |-> NoId, dependencies |-> <<>>,
              ret |-> ""]

Init ==
    /\ operators = <<>>
    /\ edges = {}
    /\ sync = SyncIdle
    /\ check = CheckIdle
    /\ stat = StatIdle
    /\ tasks = <<>>
    /\ storage = NoFiles
    /\ race = RaceIdle

CreateOperator ==
    /\ Cardinality(DOMAIN operators) < MaxOps
    /\ \E project_id \in RequestProjectIds, experiment_id \in RequestExperimentIds,
          task_id \in RequestTaskIds, parameters \in ParameterArgs,
          dependencies \in DependencyArgs :
        LET r == create_operator(operators, edges, project_id, experiment_id,
                                 task_id, parameters, dependencies)
        IN /\ operators' = r.operators
           /\ edges' = r.edges
    /\ UNCHANGED <<sync, check>>
    /\ UNCHANGED <<stat, tasks, storage, race>>

UpdateOperator ==
    /\ \E uuid \in RequestOpIds, project_id \in RequestProjectIds,
          experiment_id \in RequestExperimentIds, parameters \in ParameterArgs,
          dependencies \in DependencyArgs, fields \in FieldArgs :
        LET r == update_operator(operators, edges, uuid, project_id, experiment_id,
                                 Kwargs(parameters, dependencies, fields))
        IN /\ operators' = r.operators
           /\ edges' = r.edges
    /\ UNCHANGED <<sync, check>>
    /\ UNCHANGED <<stat, tasks, storage, race>>

DeleteOperator ==
    /\ \E uuid \in RequestOpIds, project_id \in RequestProjectIds,
          experiment_id \in RequestExperimentIds :
        LET r == delete_operator(operators, edges, uuid, project_id, experiment_id)
        IN /\ operators' = r.operators
           /\ edges' = r.edges
    /\ UNCHANGED <<sync, check>>
    /\ UNCHANGED <<stat, tasks, storage, race>>

Next == CreateOperator \/ UpdateOperator \/ DeleteOperator

Spec == Init /\ [][Next]_vars

----------------------------------------------------------------------------
\* Graph notions used by the properties (independent of the detector's DFS).

Targets(E, n) == {e.dependency : e \in {x \in E : x.operator_id = n}}
Sources(E, n) == {e.operator_id : e \in {x \in E : x.dependency = n}}
Nodes(E) == {e.operator_id : e \in E} \cup {e.dependency : e \in E}

RECURSIVE Closure(_, _)
\* Everything reachable from the set S in zero or more edges.
Closure(E, S) ==
    LET more == S \cup UNION {Targets(E, n) : n \in S}
    IN IF more = S THEN S ELSE Closure(E, more)

\* A path of one or more edges from a to b.
Path(E, a, b) == b \in Closure(E, Targets(E, a))
Acyclic(E) == \A n \in Nodes(E) : ~Path(E, n, n)

NoSelfEdge(E) == \A e \in E : e.operator_id # e.dependency
NoDuplicateEdge(E) ==
    \A e, f \in E :
        (e.operator_id = f.operator_id /\ e.dependency = f.dependency) => e = f

\* The requests of each handler, applied to the current store.
UpdateArgs ==
    RequestOpIds \X RequestProjectIds \X RequestExperimentIds
        \X ParameterArgs \X DependencyArgs \X FieldArgs
UpdateOutcome(a) ==
    update_operator(operators, edges, a[1], a[2], a[3], Kwargs(a[4], a[5], a[6]))
CreateArgs ==
    RequestProjectIds \X RequestExperimentIds \X RequestTaskIds
        \X ParameterArgs \X DependencyArgs
CreateOutcome(a) ==
    create_operator(operators, edges, a[1], a[2], a[3], a[4], a[5])
DeleteArgs == RequestOpIds \X RequestProjectIds \X RequestExperimentIds
DeleteOutcome(a) == delete_operator(operators, edges, a[1], a[2], a[3])

ValidationReasons ==
    {"project", "experiment", "operator", "taskId", "task", "parameters",
     "shape", "duplicates", "existence", "self", "cycle"}

----------------------------------------------------------------------------
\* Properties of the service (specification Spec).

\* C1: after any sequence of accepted create/update/delete requests executed
\* one at a time from the empty store, the stored dependency edges contain
\* no cycle.
C1_Acyclic == Acyclic(edges)

\* C1 witness: two edges are stored and an update that would close a cycle
\* over them is rejected by the cycle check.
C1_Witness ==
    /\ Cardinality(edges) >= 2
    /\ \E a \in UpdateArgs : UpdateOutcome(a).reason = "cycle"
                             /\ UpdateOutcome(a).status = "BadRequest"

\* C2: a create_operator or update_operator request rejected by a validation
\* check leaves the stored operators and the stored edges exactly as they were.
C2_RejectedWritesNothing ==
    /\ \A a \in CreateArgs :
          LET r == CreateOutcome(a)
          IN r.reason \in ValidationReasons =>
                r.operators = operators /\ r.edges = edges
    /\ \A a \in UpdateArgs :
          LET r == UpdateOutcome(a)
          IN r.reason \in ValidationReasons =>
                r.operators = operators /\ r.edges = edges

\* C2 witness: an update whose dependency list differs from the stored edges
\* of its operator is rejected by the cycle check.
C2_Witness ==
    \E a \in UpdateArgs :
        /\ UpdateOutcome(a).reason = "cycle"
        /\ a[5].kind = "list"
        /\ Range(a[5].list) # Targets(edges, a[1])

\* C3 (as claimed): every update_operator request that carries a dependency
\* list and ends in an error leaves the stored edges unchanged.
C3_UpdateAtomic ==
    \A a \in UpdateArgs :
        LET r == UpdateOutcome(a)
        IN (a[5].kind # "absent" /\ r.status # "OK") => r.edges = edges

\* C4 (as claimed): both endpoints of every stored edge are stored operators
\* of one and the same experiment.
C4_EdgesWithinExperiment ==
    \A e \in edges :
        /\ e.operator_id \in DOMAIN operators
        /\ e.dependency \in DOMAIN operators
        /\ operators[e.operator_id].experiment_id
              = operators[e.dependency].experiment_id

\* C5: no operator has two stored edges to the same target, and no operator
\* has an edge to itself.
C5_NoDuplicateNoSelf == NoDuplicateEdge(edges) /\ NoSelfEdge(edges)

\* C5 witness: delete_operator is accepted for a node N whose consumer
\* already depends on one of N's own dependencies (the splice meets an
\* existing edge).
C5_Witness ==
    \E a \in DeleteArgs :
        /\ DeleteOutcome(a).status = "OK"
        /\ \E c \in Sources(edges, a[1]) :
              Targets(edges, c) \cap Targets(edges, a[1]) # {}

\* C9: after an accepted delete_operator(N), N is not stored, no edge has N
\* as source or target, and every former consumer C of N depends on exactly
\* (old dependencies of C minus N) union (old dependencies of N).
C9_DeleteSplices ==
    \A a \in DeleteArgs :
        LET r == DeleteOutcome(a)
            N == a[1]
        IN r.status = "OK" =>
            /\ N \notin DOMAIN r.operators
            /\ N \notin Nodes(r.edges)
            /\ \A c \in Sources(edges, N) :
                  Targets(r.edges, c)
                      = (Targets(edges, c) \ {N}) \cup Targets(edges, N)

\* C9 witness: a chain C -> N -> P is stored, C does not depend on P, and
\* after the accepted delete_operator(N) C depends on P.
C9_Witness ==
    \E a \in DeleteArgs, c \in OpIds, p \in OpIds :
        /\ c \in Sources(edges, a[1])
        /\ p \in Targets(edges, a[1])
        /\ p \notin Targets(edges, c)
        /\ DeleteOutcome(a).status = "OK"
        /\ p \in Targets(DeleteOutcome(a).edges, c)

\* The stored graph with the outgoing edges of n replaced by the list l.
Replaced(E, n, l) ==
    {e \in E : e.operator_id # n}
        \cup {[uuid |-> NoId, operator_id |-> n, dependency |-> d] : d \in Range(l)}

\* The request reaches dependency validation: project, experiment and
\* operator exist and the parameters are valid.
ReachesDependencyValidation(a) ==
    /\ a[2] \in ProjectIds
    /\ a[3] \in ExperimentIds
    /\ a[1] \in DOMAIN operators
    /\ raise_if_parameters_are_invalid(
          IF a[4].given THEN a[4] ELSE ParametersDict(EmptyDict)).status = "OK"

\* One of the five invalid shapes of a dependency value named by the claim.
InvalidDependencies(a) ==
    \/ a[5].kind = "notlist"
    \/ /\ a[5].kind = "list"
       /\ \/ ~NoDuplicates(a[5].list)
          \/ \E d \in Range(a[5].list) :
                ~(d \in DOMAIN operators /\ operators[d].experiment_id = a[3])
          \/ a[1] \in Range(a[5].list)
          \/ ~Acyclic(Replaced(edges, a[1], a[5].list))

\* The scenario: A, B, C in one experiment; B's dependencies set to [A] is
\* accepted and stored; then A := [B], C := [C] and B := [A, A] are rejected.
Rejected(r) == r.status = "BadRequest" /\ r.edges = edges
UpdateDeps(uuid, experiment_id, l) ==
    update_operator(operators, edges, uuid, "p1", experiment_id,
                    Kwargs(ParametersAbsent, DependenciesList(l), "valid"))
Scenario(A, B, C) ==
    /\ (edges = {} =>
            LET r == UpdateDeps(B, operators[B].experiment_id, <<A>>)
            IN r.status = "OK" /\ as_dict_dependencies(r.edges, B) = <<A>>)
    /\ ((Targets(edges, B) = {A} /\ Cardinality(edges) = 1) =>
            /\ Rejected(UpdateDeps(A, operators[A].experiment_id, <<B>>))
            /\ Rejected(UpdateDeps(C, operators[C].experiment_id, <<C>>))
            /\ Rejected(UpdateDeps(B, operators[B].experiment_id, <<A, A>>)))

\* C10: an update whose dependency value is not a list, has a duplicate,
\* references an operator missing from the experiment, contains the updated
\* operator itself or would create a cycle is rejected with BadRequest; and
\* the A, B, C scenario behaves as stated.
C10_InvalidDependenciesBadRequest ==
    /\ \A a \in UpdateArgs :
          (ReachesDependencyValidation(a) /\ InvalidDependencies(a))
              => UpdateOutcome(a).status = "BadRequest"
    /\ \A A, B, C \in DOMAIN operators :
          (/\ Cardinality({A, B, C}) = 3
           /\ operators[A].experiment_id = operators[B].experiment_id
           /\ operators[B].experiment_id = operators[C].experiment_id)
              => Scenario(A, B, C)

----------------------------------------------------------------------------
\* The synchronizer and the cycle detector on their own: the store is drawn
\* from the edge sets over the operators of one experiment, and one call is
\* applied to it.

AllOperators == [u \in OpIds |-> OperatorRow("e1", "t1", EmptyDict)]
EdgeRow(a, b) == [uuid |-> (a - 1) * MaxOps + b, operator_id |-> a, dependency |-> b]
EdgeSets ==
    {{EdgeRow(p[1], p[2]) : p \in P} :
        P \in SUBSET {p \in OpIds \X OpIds : p[1] # p[2]}}
CallLists == UNION {[1..n -> OpIds] : n \in 0..MaxDepLen}

InitSync ==
    /\ operators = AllOperators
    /\ edges \in EdgeSets
    /\ sync = SyncIdle
    /\ check = CheckIdle
    /\ stat = StatIdle
    /\ tasks = <<>>
    /\ storage = NoFiles
    /\ race = RaceIdle

Synchronize ==
    /\ ~sync.done
    /\ \E operator_id \in OpIds, new_dependencies \in CallLists :
        LET r == update_dependencies(edges, operator_id, new_dependencies)
        IN /\ edges' = r.edges
           /\ sync' = [done |-> TRUE, operator_id |-> operator_id,
                       new_dependencies |-> new_dependencies,
                       before |-> edges, calls |-> r.calls]
    /\ UNCHANGED <<operators, check>>
    /\ UNCHANGED <<stat, tasks, storage, race>>

SpecSync == InitSync /\ [][Synchronize]_vars

InitCycle ==
    /\ operators = AllOperators
    /\ edges \in {E \in EdgeSets : Acyclic(E)}
    /\ sync = SyncIdle
    /\ check = CheckIdle
    /\ stat = StatIdle
    /\ tasks = <<>>
    /\ storage = NoFiles
    /\ race = RaceIdle

CheckCycles ==
    /\ ~check.done
    /\ \E operator_id \in OpIds, dependencies \in CallLists :
        check' = [done |-> TRUE, operator_id |-> operator_id,
                  dependencies |-> dependencies,
                  ret |-> raise_if_has_cycles(operators, edges, "e1",
                                              operator_id, dependencies)]
    /\ UNCHANGED <<operators, edges, sync>>
    /\ UNCHANGED <<stat, tasks, storage, race>>

SpecCycle == InitCycle /\ [][CheckCycles]_vars

----------------------------------------------------------------------------
\* Properties of update_dependencies (specification SpecSync).

SyncCurrent == Targets(sync.before, sync.operator_id)
SyncTarget == Range(sync.new_dependencies)
CountCalls(c) == Cardinality({i \in DOMAIN sync.calls : sync.calls[i] = c})

\* C6: for a list deps of distinct ids not containing op, after
\* update_dependencies(op, deps) the targets listed by list_dependencies(op)
\* are exactly the ids of deps.
C6_SynchronizeReachesTarget ==
    (/\ sync.done
     /\ NoDuplicates(sync.new_dependencies)
     /\ sync.operator_id \notin SyncTarget)
        => Range(as_dict_dependencies(edges, sync.operator_id)) = SyncTarget

\* C6 witness: a call with a valid list that had both an edge to add and an
\* edge to remove.
C6_Witness ==
    /\ sync.done
    /\ NoDuplicates(sync.new_dependencies)
    /\ sync.operator_id \notin SyncTarget
    /\ SyncTarget \ SyncCurrent # {}
    /\ SyncCurrent \ SyncTarget # {}

\* C7: update_dependencies(op, target), target a set of ids, issues exactly
\* one create_dependency per element of target minus current, exactly one
\* delete_dependency (of that edge's row) per element of current minus
\* target, and no other call; rows whose target is in both sets are kept as
\* they are, and equal sets give no call at all.
C7_MinimalStoreCalls ==
    (sync.done /\ NoDuplicates(sync.new_dependencies)) =>
        /\ \A d \in SyncTarget \ SyncCurrent :
              CountCalls(CreateCall(sync.operator_id, d)) = 1
        /\ \A e \in sync.before :
              (e.operator_id = sync.operator_id /\ e.dependency \notin SyncTarget)
                  => CountCalls(DeleteCall(e.uuid)) = 1
        /\ Len(sync.calls) = Cardinality(SyncTarget \ SyncCurrent)
                                + Cardinality(SyncCurrent \ SyncTarget)
        /\ \A e \in sync.before :
              (e.operator_id # sync.operator_id \/ e.dependency \in SyncTarget)
                  => e \in edges
        /\ (SyncTarget = SyncCurrent => sync.calls = <<>> /\ edges = sync.before)

\* C7 witness: a call that kept one stored edge of op and issued a call for
\* another.
C7_Witness ==
    /\ sync.done
    /\ NoDuplicates(sync.new_dependencies)
    /\ SyncTarget \cap SyncCurrent # {}
    /\ sync.calls # <<>>

----------------------------------------------------------------------------
\* Properties of the cycle detector (specification SpecCycle).

\* C8: on an acyclic stored graph, for distinct operators A and B of the
\* pipeline, the check of A with dependencies [B] reports a cycle exactly
\* when stored edges lead from B to A.
C8_CycleIffPath ==
    (/\ check.done
     /\ Len(check.dependencies) = 1
     /\ check.dependencies[1] # check.operator_id)
        => (check.ret = "BadRequest"
              <=> Path(edges, check.dependencies[1], check.operator_id))

\* C8 witness: the check of A with [B] reported a cycle where B reaches A
\* only through a third operator.
C8_Witness ==
    /\ check.done
    /\ Len(check.dependencies) = 1
    /\ check.dependencies[1] # check.operator_id
    /\ check.ret = "BadRequest"
    /\ check.operator_id \notin Targets(edges, check.dependencies[1])

----------------------------------------------------------------------------
\* check_status as a function of its inputs.

\* Longest parameter schema and longest tag list of a task.
MaxSchemaLen == 2
MaxTagLen == 2

ParameterNames == {"dataset", "p", "q"}
ParameterValues == {PyValue("str", ""), PyValue("str", "v"), PyValue("int", "")}
\* Every dict over the names, empty strings included.
ParameterDicts == UNION {[keys -> ParameterValues] : keys \in SUBSET ParameterNames}
TagLists == UNION {[1..n -> Range(VALID_TAGS)] : n \in 0..MaxTagLen}
SchemaLists == UNION {[1..n -> ParameterNames] : n \in 0..MaxSchemaLen}

InitStatus ==
    /\ operators = <<>>
    /\ edges = {}
    /\ sync = SyncIdle
    /\ check = CheckIdle
    /\ \E parameters \in ParameterDicts, tags \in TagLists, comp_params \in SchemaLists :
         stat = [done |-> FALSE, parameters |-> parameters, tags |-> tags,
                 comp_params |-> comp_params, status |-> ""]
    /\ tasks = <<>>
    /\ storage = NoFiles
    /\ race = RaceIdle

DeriveStatus ==
    /\ ~stat.done
    /\ stat' = [stat EXCEPT !.done = TRUE,
                            !.status = check_status(stat.parameters, stat.tags,
                                                    stat.comp_params)]
    /\ UNCHANGED <<operators, edges, sync, check, tasks, storage, race>>

SpecStatus == InitStatus /\ [][DeriveStatus]_vars

\* The reference classification, by counting.
filledCount(parameters) ==
    Cardinality({key \in DOMAIN parameters :
                    ~(parameters[key].type = "str" /\ parameters[key].text = "")})
schemaCount(comp_params) ==
    Cardinality({i \in DOMAIN comp_params : comp_params[i] # "dataset"})
Reference(parameters, tags, comp_params) ==
    IF \E i \in DOMAIN tags : tags[i] = "DATASETS"
    THEN IF filledCount(parameters) = 1 THEN "Setted up" ELSE "Unset"
    ELSE IF filledCount(parameters) = schemaCount(comp_params)
    THEN "Setted up" ELSE "Unset"

\* C11: for every operator and task, the status check_status assigns is the
\* reference classification: with filledCount the number of parameters whose
\* value is not '', a DATASETS-tagged task gives 'Setted up' exactly when
\* filledCount is 1, any other task exactly when filledCount is the number
\* of schema parameters not named 'dataset'; otherwise 'Unset'.
C11_StatusIsReference ==
    stat.done => stat.status = Reference(stat.parameters, stat.tags, stat.comp_params)

\* A task without the DATASETS tag whose schema declares 'dataset': the
\* operator fills as many parameters as the schema has besides 'dataset'.
C11_Witness ==
    /\ stat.done
    /\ stat.status = "Setted up"
    /\ "DATASETS" \notin Range(stat.tags)
    /\ "dataset" \in Range(stat.comp_params)
    /\ filledCount(stat.parameters) = 1
    /\ \E key \in DOMAIN stat.parameters : stat.parameters[key] = PyValue("str", "")

----------------------------------------------------------------------------
\* The service on operators that carry parameters.

\* Size of the pool of operator uuids of this service.
MaxStatusOps == 2

StoredNames == {"dataset", "p"}
StoredValues == {PyValue("str", ""), PyValue("str", "v")}
StatusParameterArgs ==
    {ParametersAbsent} \cup
    {ParametersDict(d) : d \in UNION {[keys -> StoredValues] : keys \in SUBSET StoredNames}}

CreateConfigured ==
    /\ Cardinality(DOMAIN operators) < MaxStatusOps
    /\ \E parameters \in StatusParameterArgs, dependencies \in DependencyArgs :
        LET r == create_operator(operators, edges, "p1", "e1", "t1", parameters,
                                 dependencies)
        IN /\ operators' = r.operators
           /\ edges' = r.edges
    /\ UNCHANGED <<sync, check, stat, tasks, storage, race>>

UpdateConfigured ==
    /\ \E uuid \in RequestOpIds, parameters \in StatusParameterArgs,
          dependencies \in DependencyArgs :
        LET r == update_operator(operators, edges, uuid, "p1", "e1",
                                 Kwargs(parameters, dependencies, "valid"))
        IN /\ operators' = r.operators
           /\ edges' = r.edges
    /\ UNCHANGED <<sync, check, stat, tasks, storage, race>>

ListOperators ==
    /\ \E project_id \in RequestProjectIds, experiment_id \in RequestExperimentIds :
        LET r == list_operators_handler(operators, edges, project_id, experiment_id)
        IN /\ operators' = r.operators
           /\ edges' = r.edges
    /\ UNCHANGED <<sync, check, stat, tasks, storage, race>>

NextConfigured == CreateConfigured \/ UpdateConfigured \/ ListOperators

SpecConfigured == Init /\ [][NextConfigured]_vars

ConfiguredCreateArgs == StatusParameterArgs \X DependencyArgs
ConfiguredCreateOutcome(a) ==
    create_operator(operators, edges, "p1", "e1", "t1", a[1], a[2])
ConfiguredUpdateArgs == RequestOpIds \X StatusParameterArgs \X DependencyArgs
ConfiguredUpdateOutcome(a) ==
    update_operator(operators, edges, a[1], "p1", "e1", Kwargs(a[2], a[3], "valid"))
ListArgs == RequestProjectIds \X RequestExperimentIds
ListOutcome(a) == list_operators_handler(operators, edges, a[1], a[2])

\* The status of a stored row, by the reference classification.
StoredStatus(O, uuid) ==
    Reference(O[uuid].parameters, TaskTable[O[uuid].task_id].tags,
              TaskTable[O[uuid].task_id].parameters)

\* C12: the status attached to every operator that list_operators,
\* create_operator and update_operator return is the status derived from the
\* parameters stored when the response is made and the schema of its task;
\* an update that changes the parameters returns the status of the new
\* parameters, and listing again gives the same statuses.
C12_ResponseStatusIsDerived ==
    /\ \A a \in ConfiguredCreateArgs :
          LET r == ConfiguredCreateOutcome(a)
          IN r.status = "OK" => r.as_dict_status = StoredStatus(r.operators, r.uuid)
    /\ \A a \in ConfiguredUpdateArgs :
          LET r == ConfiguredUpdateOutcome(a)
          IN r.status = "OK" => r.as_dict_status = StoredStatus(r.operators, a[1])
    /\ \A a \in ListArgs :
          LET r == ListOutcome(a)
              again == list_operators_handler(r.operators, r.edges, a[1], a[2])
          IN /\ \A i \in DOMAIN r.response :
                  r.response[i].status = StoredStatus(r.operators, r.response[i].uuid)
             /\ again.response = r.response

\* An update that turns an 'Unset' operator into a 'Setted up' one answers
\* 'Setted up', and a listing shows operators of both statuses.
C12_Witness ==
    /\ \E a \in ConfiguredUpdateArgs :
          LET r == ConfiguredUpdateOutcome(a)
          IN /\ r.status = "OK"
             /\ a[2].given
             /\ StoredStatus(operators, a[1]) = "Unset"
             /\ r.as_dict_status = "Setted up"
    /\ \E a \in ListArgs :
          LET r == ListOutcome(a)
          IN \E i, j \in DOMAIN r.response :
                /\ r.response[i].status = "Unset"
                /\ r.response[j].status = "Setted up"

----------------------------------------------------------------------------
\* Two update_operator requests on one experiment, each a validation step
\* and a write step, interleaved in any order.

\* Number of operators of the experiment and longest list of a request.
MaxRaceOps == 2
MaxRaceLen == 1

Clients == {1, 2}
RaceOpIds == 1..MaxRaceOps
RaceOperators == [u \in RaceOpIds |-> OperatorRow("e1", "t1", EmptyDict)]
RaceEdgeSets ==
    {{EdgeRow(p[1], p[2]) : p \in P} :
        P \in SUBSET {p \in RaceOpIds \X RaceOpIds : p[1] # p[2]}}
RaceLists == UNION {[1..n -> RaceOpIds] : n \in 0..MaxRaceLen}
RaceRequests == {[uuid |-> u, dependencies |-> l] : u \in RaceOpIds, l \in RaceLists}
RaceKwargs(request) ==
    Kwargs(ParametersAbsent, DependenciesList(request.dependencies), "valid")

InitRace ==
    /\ operators = RaceOperators
    /\ edges \in {E \in RaceEdgeSets : Acyclic(E)}
    /\ sync = SyncIdle
    /\ check = CheckIdle
    /\ stat = StatIdle
    /\ tasks = <<>>
    /\ storage = NoFiles
    /\ race = [pc |-> [c \in Clients |-> "idle"],
               request |-> [c \in Clients |-> [uuid |-> NoId, dependencies |-> <<>>]],
               overlap |-> FALSE]

\* Lines 118-130 of request c, reading the store as it is now.
Validate(c) ==
    /\ race.pc[c] = "idle"
    /\ \E request \in RaceRequests :
        LET v == update_operator_validate(operators, edges, request.uuid, "p1", "e1", RaceKwargs(request))
        IN race' = [pc |-> [race.pc EXCEPT ![c] = IF v.status = "OK" THEN "validated"
                                                  ELSE "rejected"],
                    request |-> [race.request EXCEPT ![c] = request],
                    overlap |-> race.overlap \/
                                (v.status = "OK" /\
                                 \E other \in Clients \ {c} : race.pc[other] = "validated")]
    /\ UNCHANGED <<operators, edges, sync, check, stat, tasks, storage>>

\* Lines 131-145 of request c, writing to the store as it is now.
Write(c) ==
    /\ race.pc[c] = "validated"
    /\ LET r == update_operator_write(operators, edges, race.request[c].uuid,
                      RaceKwargs(race.request[c]))
       IN /\ operators' = r.operators
          /\ edges' = r.edges
    /\ race' = [race EXCEPT !.pc[c] = "done"]
    /\ UNCHANGED <<sync, check, stat, tasks, storage>>

NextRace == \E c \in Clients : Validate(c) \/ Write(c)

SpecRace == InitRace /\ [][NextRace]_vars

\* C13: two update_operator requests on one experiment whose validation and
\* write are separate steps can commit a cycle although each passed its own
\* cycle check; as long as no request validates while the other is between
\* its validation and its write, the stored graph has no cycle.
C13_CycleOnlyWhenInterleaved == ~race.overlap => Acyclic(edges)

\* A := [B] and B := [A], both validated before either wrote, both written:
\* the stored graph has the cycle A -> B -> A.
C13_Witness ==
    /\ \A c \in Clients : race.pc[c] = "done"
    /\ race.overlap
    /\ race.request[1].dependencies = <<race.request[2].uuid>>
    /\ race.request[2].dependencies = <<race.request[1].uuid>>
    /\ ~Acyclic(edges)

----------------------------------------------------------------------------
\* Error classes of the handlers and what the read-only operations leave.

\* C14: create_operator answers NotFound when the project or the experiment
\* does not exist, and BadRequest when (both existing) the task id is not a
\* string or names no task; in each of these cases no operator and no edge
\* is created.
C14_CreateErrorClasses ==
    \A a \in CreateArgs :
        LET r == CreateOutcome(a)
            no_parent == a[1] \notin ProjectIds \/ a[2] \notin ExperimentIds
            no_task == a[3] = "None" \/ a[3] \notin TaskIds
        IN /\ no_parent => r.status = "NotFound"
           /\ (~no_parent /\ no_task) => r.status = "BadRequest"
           /\ (no_parent \/ no_task) => (r.operators = operators /\ r.edges = edges)

\* With operators and edges stored, a request for an unknown experiment is
\* answered NotFound and one for an unknown task BadRequest, although its
\* parameters and dependencies are valid.
C14_Witness ==
    /\ edges # {}
    /\ \E a \in CreateArgs :
          /\ a[2] = "ex" /\ a[3] \in TaskIds
          /\ CreateOutcome(a).status = "NotFound"
    /\ \E a \in CreateArgs :
          /\ a[1] \in ProjectIds /\ a[2] \in ExperimentIds /\ a[3] = "tx"
          /\ a[4] = ParametersDict(EmptyDict)
          /\ a[5].kind = "list" /\ a[5].list # <<>>
          /\ Range(a[5].list) \subseteq DOMAIN operators
          /\ CreateOutcome(a).status = "BadRequest"
          /\ CreateOutcome(a).reason = "task"

\* C15: update_operator and delete_operator on a uuid that names no stored
\* operator answer NotFound and leave the operators and the edges as they
\* were.
C15_UnknownOperatorNotFound ==
    /\ \A a \in UpdateArgs :
          LET r == UpdateOutcome(a)
          IN a[1] \notin DOMAIN operators =>
                (r.status = "NotFound" /\ r.operators = operators /\ r.edges = edges)
    /\ \A a \in DeleteArgs :
          LET r == DeleteOutcome(a)
          IN a[1] \notin DOMAIN operators =>
                (r.status = "NotFound" /\ r.operators = operators /\ r.edges = edges)

\* A uuid whose operator was deleted after others came to depend on
\* operators around it: both handlers stop at the lookup of the operator.
C15_Witness ==
    /\ edges # {}
    /\ \E u \in OpIds \ DOMAIN operators :
          /\ \E a \in UpdateArgs :
                /\ a[1] = u /\ a[5].kind = "list" /\ a[5].list # <<>>
                /\ UpdateOutcome(a).reason = "operator"
          /\ \E a \in DeleteArgs :
                /\ a[1] = u
                /\ DeleteOutcome(a).reason = "operator"

CycleCheckArgs == RequestProjectIds \X RequestExperimentIds \X RequestOpIds \X CallLists
CycleCheckOutcome(a) ==
    raise_if_has_cycles_call(operators, edges, a[1], a[2], a[3], a[4])

\* C16: raise_if_has_cycles and list_operators leave the stored graph as it
\* was: the same operators, the same parameters of every operator and the
\* same edges, whether the call returns or raises.
C16_ReadOnly ==
    /\ \A a \in ListArgs :
          LET r == ListOutcome(a)
          IN r.operators = operators /\ r.edges = edges
    /\ \A a \in CycleCheckArgs :
          LET r == CycleCheckOutcome(a)
          IN r.operators = operators /\ r.edges = edges

\* A store with an edge and an operator holding an empty parameter value:
\* the operators are listed, one cycle check returns and another raises.
C16_Witness ==
    /\ edges # {}
    /\ \E u \in DOMAIN operators : \E key \in DOMAIN operators[u].parameters :
          ~Filled(operators[u].parameters[key])
    /\ \E a \in ListArgs : ListOutcome(a).status = "OK" /\ ListOutcome(a).response # <<>>
    /\ \E a \in ListArgs : ListOutcome(a).status = "NotFound"
    /\ \E a \in CycleCheckArgs : CycleCheckOutcome(a).status = "False" /\ a[4] # <<>>
    /\ \E a \in CycleCheckArgs : CycleCheckOutcome(a).status = "BadRequest"

----------------------------------------------------------------------------
\* Tasks (controllers/tasks.py): the table "tasks", the notebooks in the
\* object storage (by task uuid) and on Jupyter (by task name).  No
\* operator refers to the tasks of this service.

\* Size of the pool of task uuids.
MaxTasks == 2
\* Longest tag list a request carries.
MaxTaskTags == 2

TaskUuids == 1..MaxTasks
TaskNames == {"a", "b"}
\* name: a string, or a value that is no string ("None").
RequestNames == TaskNames \cup {"None"}
\* Tags a request may carry: two valid ones and one that is not valid.
RequestTags == {"DATASETS", "DEFAULT", "UNKNOWN"}
TagsNone == [kind |-> "none", list |-> <<>>]
TagsAbsent == [kind |-> "absent", list |-> <<>>]
TagsList(l) == [kind |-> "list", list |-> l]
RequestTagLists == UNION {[1..n -> RequestTags] : n \in 0..MaxTaskTags}
ImageArgs == {"none", "valid", "invalid"}

TaskRow(name, tags) == [name |-> name, tags |-> tags]
\* A file of either store: its folder (the task uuid in the object storage,
\* the task name on Jupyter) and its name.
File(folder, file) == [folder |-> folder, file |-> file]
put_object(S, task_id, file) == [S EXCEPT !.minio = @ \cup {File(task_id, file)}]

\* What a task handler leaves behind: the table, the files, the exception
\* class it raised ("OK" when it returned) and which check raised it.
TaskOutcome(T, S, status, reason) ==
    [tasks |-> T, storage |-> S, status |-> status, reason |-> reason]

\* create_jupyter_files(task_name, ...)
create_jupyter_files(S, task_name) ==
    [S EXCEPT !.jupyter = @ \cup {File(task_name, "Deployment.ipynb"),
                                  File(task_name, "Experiment.ipynb")}]

copy_task(T, S, name, tags, copy_from) ==
    IF copy_from \notin DOMAIN T
    THEN TaskOutcome(T, S, "BadRequest", "source")
    ELSE IF File(copy_from, "Deployment.ipynb") \notin S.minio
    THEN TaskOutcome(T, S, "ResponseError", "get_object")
    ELSE LET task_id == uuid_alpha(DOMAIN T \cup {f.folder : f \in S.minio})
             S1 == put_object(put_object(S, task_id, "Deployment.ipynb"),
                              task_id, "Experiment.ipynb")
         IN TaskOutcome((task_id :> TaskRow(name, tags)) @@ T,
                        create_jupyter_files(S1, name), "OK", "")

\* Variant of create_task that checks the name after the Jupyter files are
\* written.
create_task_mutant_name_checked_late(T, S, name, tags, image, copy_from, notebooks) ==
    IF name = "None"
    THEN TaskOutcome(T, create_jupyter_files(S, name), "BadRequest", "name")
    ELSE IF copy_from # NoId /\ notebooks
    THEN TaskOutcome(T, S, "BadRequest", "notebooks")
    ELSE
    LET tags1 == IF tags.kind # "list" \/ Len(tags.list) = 0 THEN <<"DEFAULT">>
                 ELSE tags.list
    IN IF \E i \in DOMAIN tags1 : tags1[i] \notin Range(VALID_TAGS)
       THEN TaskOutcome(T, S, "BadRequest", "tags")
       ELSE IF image = "invalid"
       THEN TaskOutcome(T, S, "BadRequest", "image")
       ELSE IF \E u \in DOMAIN T : T[u].name = name
       THEN TaskOutcome(T, S, "BadRequest", "exists")
       ELSE IF copy_from # NoId
       THEN copy_task(T, S, name, tags1, copy_from)
       ELSE
       LET task_id == uuid_alpha(DOMAIN T \cup {f.folder : f \in S.minio})
           S1 == IF "DATASETS" \notin Range(tags1)
                 THEN put_object(S, task_id, "Deployment.ipynb")
                 ELSE S
           S2 == put_object(S1, task_id, "Experiment.ipynb")
       IN TaskOutcome((task_id :> TaskRow(name, tags1)) @@ T,
                      create_jupyter_files(S2, name), "OK", "")

create_task(T, S, name, tags, image, copy_from, notebooks) ==
    IF name = "None"
    THEN TaskOutcome(T, S, "BadRequest", "name")
    ELSE IF copy_from # NoId /\ notebooks
    THEN TaskOutcome(T, S, "BadRequest", "notebooks")
    ELSE
    LET tags1 == IF tags.kind # "list" \/ Len(tags.list) = 0 THEN <<"DEFAULT">>
                 ELSE tags.list
    IN IF \E i \in DOMAIN tags1 : tags1[i] \notin Range(VALID_TAGS)
       THEN TaskOutcome(T, S, "BadRequest", "tags")
       ELSE IF image = "invalid"
       THEN TaskOutcome(T, S, "BadRequest", "image")
       ELSE IF \E u \in DOMAIN T : T[u].name = name
       THEN TaskOutcome(T, S, "BadRequest", "exists")
       ELSE IF copy_from # NoId
       THEN copy_task(T, S, name, tags1, copy_from)
       ELSE
       LET task_id == uuid_alpha(DOMAIN T \cup {f.folder : f \in S.minio})
           S1 == IF "DATASETS" \notin Range(tags1)
                 THEN put_object(S, task_id, "Deployment.ipynb")
                 ELSE S
           S2 == put_object(S1, task_id, "Experiment.ipynb")
       IN TaskOutcome((task_id :> TaskRow(name, tags1)) @@ T,
                      create_jupyter_files(S2, name), "OK", "")

get_task(T, S, uuid) ==
    IF uuid \notin DOMAIN T
    THEN TaskOutcome(T, S, "NotFound", "task")
    ELSE TaskOutcome(T, S, "OK", "")

\* The keyword arguments of update_task: name ("absent" when not given),
\* tags, whether experiment_notebook is given, and the remaining keywords:
\* column names the tasks table has ("valid") or not ("invalid").
TaskKwargs(name, tags, notebook, fields) ==
    [name |-> name, tags |-> tags, notebook |-> notebook, fields |-> fields]

\* update_folder_name(old, new) on Jupyter
update_folder_name(S, old_name, new_name) ==
    [S EXCEPT !.jupyter = {f \in @ : f.folder # old_name}
                          \cup {File(new_name, f.file) :
                                  f \in {g \in @ : g.folder = old_name}}]

\* Variant of update_task without the lookup of the new name.
update_task_mutant_no_name_check(T, S, uuid, kwargs) ==
    IF uuid \notin DOMAIN T
    THEN TaskOutcome(T, S, "NotFound", "task")
    ELSE IF kwargs.tags.kind = "none"
    THEN TaskOutcome(T, S, "TypeError", "tags")
    ELSE IF /\ kwargs.tags.kind = "list"
            /\ \E i \in DOMAIN kwargs.tags.list :
                  kwargs.tags.list[i] \notin Range(VALID_TAGS)
    THEN TaskOutcome(T, S, "BadRequest", "tags")
    ELSE
    LET S1 == IF kwargs.notebook THEN put_object(S, uuid, "Experiment.ipynb") ELSE S
        old_name == T[uuid].name
        name == IF kwargs.name # "absent" THEN kwargs.name ELSE old_name
        tags == IF kwargs.tags.kind = "list" THEN kwargs.tags.list ELSE T[uuid].tags
    IN IF kwargs.fields = "invalid"
       THEN TaskOutcome(T, S1, "BadRequest", "fields")
       ELSE TaskOutcome([T EXCEPT ![uuid] = TaskRow(name, tags)],
                        IF old_name # name THEN update_folder_name(S1, old_name, name)
                        ELSE S1,
                        "OK", "")

update_task(T, S, uuid, kwargs) ==
    IF uuid \notin DOMAIN T
    THEN TaskOutcome(T, S, "NotFound", "task")
    ELSE IF /\ kwargs.name # "absent"
            /\ kwargs.name # T[uuid].name
            /\ \E u \in DOMAIN T : T[u].name = kwargs.name
    THEN TaskOutcome(T, S, "BadRequest", "exists")
    ELSE IF kwargs.tags.kind = "none"
    THEN TaskOutcome(T, S, "TypeError", "tags")
    ELSE IF /\ kwargs.tags.kind = "list"
            /\ \E i \in DOMAIN kwargs.tags.list :
                  kwargs.tags.list[i] \notin Range(VALID_TAGS)
    THEN TaskOutcome(T, S, "BadRequest", "tags")
    ELSE
    LET S1 == IF kwargs.notebook THEN put_object(S, uuid, "Experiment.ipynb") ELSE S
        old_name == T[uuid].name
        name == IF kwargs.name # "absent" THEN kwargs.name ELSE old_name
        tags == IF kwargs.tags.kind = "list" THEN kwargs.tags.list ELSE T[uuid].tags
    IN IF kwargs.fields = "invalid"
       THEN TaskOutcome(T, S1, "BadRequest", "fields")
       ELSE TaskOutcome([T EXCEPT ![uuid] = TaskRow(name, tags)],
                        IF old_name # name THEN update_folder_name(S1, old_name, name)
                        ELSE S1,
                        "OK", "")

\* Variant of delete_task without the lookup of the task.
delete_task_mutant_no_lookup(T, S, uuid) ==
    TaskOutcome([u \in DOMAIN T \ {uuid} |-> T[u]],
                [S EXCEPT !.minio = {f \in @ : f.folder # uuid}],
                "OK", "")

delete_task(T, S, uuid) ==
    IF uuid \notin DOMAIN T
    THEN TaskOutcome(T, S, "NotFound", "task")
    ELSE TaskOutcome([u \in DOMAIN T \ {uuid} |-> T[u]],
                     [S EXCEPT !.minio = {f \in @ : f.folder # uuid}],
                     "OK", "")

RequestTaskUuids == TaskUuids \cup {NoId}
CreateTagArgs == {TagsNone} \cup {TagsList(l) : l \in RequestTagLists}
UpdateTagArgs == {TagsAbsent, TagsNone} \cup {TagsList(l) : l \in RequestTagLists}
CreateTaskArgs == RequestNames \X CreateTagArgs \X ImageArgs \X RequestTaskUuids \X BOOLEAN
CreateTaskOutcome(a) == create_task(tasks, storage, a[1], a[2], a[3], a[4], a[5])
UpdateTaskArgs ==
    RequestTaskUuids \X (TaskNames \cup {"absent"}) \X UpdateTagArgs \X BOOLEAN \X FieldArgs
UpdateTaskOutcome(a) ==
    update_task(tasks, storage, a[1], TaskKwargs(a[2], a[3], a[4], a[5]))

CreateTask ==
    /\ Cardinality(DOMAIN tasks) < MaxTasks
    /\ \E a \in CreateTaskArgs :
        LET r == CreateTaskOutcome(a)
        IN /\ tasks' = r.tasks
           /\ storage' = r.storage
    /\ UNCHANGED <<operators, edges, sync, check, stat, race>>

GetTask ==
    /\ \E uuid \in RequestTaskUuids :
        LET r == get_task(tasks, storage, uuid)
        IN /\ tasks' = r.tasks
           /\ storage' = r.storage
    /\ UNCHANGED <<operators, edges, sync, check, stat, race>>

UpdateTask ==
    /\ \E a \in UpdateTaskArgs :
        LET r == UpdateTaskOutcome(a)
        IN /\ tasks' = r.tasks
           /\ storage' = r.storage
    /\ UNCHANGED <<operators, edges, sync, check, stat, race>>

DeleteTask ==
    /\ \E uuid \in RequestTaskUuids :
        LET r == delete_task(tasks, storage, uuid)
        IN /\ tasks' = r.tasks
           /\ storage' = r.storage
    /\ UNCHANGED <<operators, edges, sync, check, stat, race>>

NextTasks == CreateTask \/ GetTask \/ UpdateTask \/ DeleteTask

SpecTasks == Init /\ [][NextTasks]_vars

\* C17 (as claimed): every stored task has at least one tag, and every tag
\* of every stored task is one of VALID_TAGS.
C17_TagsValidAndPresent ==
    \A u \in DOMAIN tasks :
        /\ Len(tasks[u].tags) >= 1
        /\ \A i \in DOMAIN tasks[u].tags : tasks[u].tags[i] \in Range(VALID_TAGS)

\* C18: a create request whose name is no string is answered BadRequest
\* 'name is required'; the stored tasks are as before and no file is written
\* to the object storage or to Jupyter.
C18_NameRequiredWritesNothing ==
    \A a \in CreateTaskArgs :
        LET r == CreateTaskOutcome(a)
        IN a[1] = "None" =>
              /\ r.status = "BadRequest" /\ r.reason = "name"
              /\ r.tasks = tasks
              /\ r.storage = storage

\* With a task stored, a request without a name that is otherwise complete
\* (valid tags, valid image, or an existing task to copy from) is rejected.
C18_Witness ==
    /\ tasks # <<>>
    /\ \E a \in CreateTaskArgs :
          /\ a[1] = "None" /\ a[2] = TagsList(<<"DATASETS">>) /\ a[3] = "valid"
          /\ a[4] = NoId
          /\ CreateTaskOutcome(a).reason = "name"
    /\ \E a \in CreateTaskArgs :
          /\ a[1] = "None" /\ a[4] \in DOMAIN tasks /\ ~a[5]
          /\ CreateTaskOutcome(a).reason = "name"

\* C19: get_task, update_task and delete_task on a uuid that names no stored
\* task raise NotFound and leave the stored tasks as they were.
C19_UnknownTaskNotFound ==
    \A uuid \in RequestTaskUuids \ DOMAIN tasks :
        /\ LET r == get_task(tasks, storage, uuid)
           IN r.status = "NotFound" /\ r.tasks = tasks
        /\ \A a \in UpdateTaskArgs :
              LET r == UpdateTaskOutcome(a)
              IN a[1] = uuid => (r.status = "NotFound" /\ r.tasks = tasks)
        /\ LET r == delete_task(tasks, storage, uuid)
           IN r.status = "NotFound" /\ r.tasks = tasks

\* The uuid of a task that was deleted while another task is stored: the
\* three handlers answer NotFound, also for an update with valid arguments.
C19_Witness ==
    /\ tasks # <<>>
    /\ \E uuid \in TaskUuids \ DOMAIN tasks :
          /\ \E f \in storage.jupyter : \A u \in DOMAIN tasks : tasks[u].name # f.folder
          /\ get_task(tasks, storage, uuid).status = "NotFound"
          /\ delete_task(tasks, storage, uuid).status = "NotFound"
          /\ \E a \in UpdateTaskArgs :
                /\ a[1] = uuid /\ a[3] = TagsList(<<"DEFAULT">>) /\ a[4] /\ a[5] = "valid"
                /\ UpdateTaskOutcome(a).status = "NotFound"

----------------------------------------------------------------------------
\* The checks raise_if_dependencies_are_invalid performs, in the order it
\* performs them (operators.py 244-259).

\* One check: which one, on which entry of the list (0: on the whole value)
\* and whether it raised.
CheckEvent(name, entry, raised) == [check |-> name, entry |-> entry, raised |-> raised]

RECURSIVE DependencyLoopChecks(_, _, _, _, _, _)
\* for d in dependencies: raise_if_operator_does_not_exist(d), d == operator_id
DependencyLoopChecks(O, experiment_id, dependencies, operator_id, i, done) ==
    IF i > Len(dependencies) THEN done
    ELSE LET missing ==
                 raise_if_operator_does_not_exist(O, dependencies[i], experiment_id) # "OK"
             own == dependencies[i] = operator_id
             d1 == Append(done, CheckEvent("existence", i, missing))
             d2 == Append(d1, CheckEvent("self", i, own))
         IN IF missing THEN d1
            ELSE IF own THEN d2
            ELSE DependencyLoopChecks(O, experiment_id, dependencies, operator_id,
                                      i + 1, d2)

RECURSIVE DependencyLoopChecks_mutant(_, _, _, _, _, _)
\* Variant of the loop that compares the entry with operator_id before it
\* looks the entry up.
DependencyLoopChecks_mutant(O, experiment_id, dependencies, operator_id, i, done) ==
    IF i > Len(dependencies) THEN done
    ELSE LET missing ==
                 raise_if_operator_does_not_exist(O, dependencies[i], experiment_id) # "OK"
             own == dependencies[i] = operator_id
             d1 == Append(done, CheckEvent("self", i, own))
             d2 == Append(d1, CheckEvent("existence", i, missing))
         IN IF own THEN d1
            ELSE IF missing THEN d2
            ELSE DependencyLoopChecks_mutant(O, experiment_id, dependencies,
                                             operator_id, i + 1, d2)

\* Variant of raise_if_dependencies_are_invalid whose loop compares before
\* it looks up.
dependency_checks_mutant_self_first(O, E, experiment_id, dependencies, operator_id) ==
    IF dependencies.kind # "list" THEN <<CheckEvent("shape", 0, TRUE)>>
    ELSE
    LET list == dependencies.list
        duplicated == Len(list) # Cardinality(Range(list))
        head == <<CheckEvent("shape", 0, FALSE), CheckEvent("duplicates", 0, duplicated)>>
        each == DependencyLoopChecks_mutant(O, experiment_id, list, operator_id, 1, head)
    IN IF duplicated THEN head
       ELSE IF each[Len(each)].raised THEN each
       ELSE Append(each, CheckEvent("cycle", 0,
                raise_if_has_cycles(O, E, experiment_id, operator_id, list) # "False"))

\* raise_if_dependencies_are_invalid as the sequence of checks it performs;
\* only the last one can have raised.
dependency_checks(O, E, experiment_id, dependencies, operator_id) ==
    IF dependencies.kind # "list" THEN <<CheckEvent("shape", 0, TRUE)>>
    ELSE
    LET list == dependencies.list
        duplicated == Len(list) # Cardinality(Range(list))
        head == <<CheckEvent("shape", 0, FALSE), CheckEvent("duplicates", 0, duplicated)>>
        each == DependencyLoopChecks(O, experiment_id, list, operator_id, 1, head)
    IN IF duplicated THEN head
       ELSE IF each[Len(each)].raised THEN each
       ELSE Append(each, CheckEvent("cycle", 0,
                raise_if_has_cycles(O, E, experiment_id, operator_id, list) # "False"))

\* The calls the handlers make: create_operator with operator_id None,
\* update_operator with the uuid of a stored operator.
ValidationArgs ==
    (DOMAIN operators \cup {NoId}) \X RequestExperimentIds \X DependencyArgs
ValidationChecks(a) == dependency_checks(operators, edges, a[2], a[3], a[1])
ValidationVerdict(a) ==
    raise_if_dependencies_are_invalid(operators, edges, a[2], a[3], a[1])

\* Position of a check in a sequence of checks; 0 when it was not performed.
Position(checks, name, entry) ==
    IF \E k \in DOMAIN checks : checks[k].check = name /\ checks[k].entry = entry
    THEN CHOOSE k \in DOMAIN checks : checks[k].check = name /\ checks[k].entry = entry
    ELSE 0

\* The cycle detector is invoked only for a list without duplicates whose
\* entries all exist in the experiment and are not the operator itself, and
\* the checks performed are the verdict's.
CycleOnlyForValidLists(a) ==
    LET checks == ValidationChecks(a)
        last == checks[Len(checks)]
    IN /\ Position(checks, "cycle", 0) # 0 =>
            /\ a[3].kind = "list"
            /\ NoDuplicates(a[3].list)
            /\ \A i \in DOMAIN a[3].list :
                  /\ a[3].list[i] \in DOMAIN operators
                  /\ operators[a[3].list[i]].experiment_id = a[2]
                  /\ a[3].list[i] # a[1]
            /\ Position(checks, "cycle", 0) = Len(checks)
       /\ \A k \in 1..(Len(checks) - 1) : ~checks[k].raised
       /\ last.raised <=> ValidationVerdict(a).status # "OK"
       /\ last.raised => ValidationVerdict(a).reason = last.check
       /\ Position(checks, "shape", 0) = 1
       /\ Len(checks) > 1 => Position(checks, "duplicates", 0) = 2

\* C20 (as claimed): the cycle detector is invoked only for valid lists, and
\* whenever a self-reference rejection is raised for a list, the existence
\* check of every entry of the list has completed before it.
C20_ExistenceOfAllBeforeSelf ==
    \A a \in ValidationArgs :
        LET checks == ValidationChecks(a)
            last == checks[Len(checks)]
        IN /\ CycleOnlyForValidLists(a)
           /\ (last.check = "self" /\ last.raised) =>
                 \A i \in DOMAIN a[3].list :
                    /\ Position(checks, "existence", i) # 0
                    /\ Position(checks, "existence", i) < Len(checks)

\* C20 (amended): the cycle detector is invoked only for valid lists; the
\* entries are checked in list order, each entry's existence before its
\* self-reference, so when a self-reference rejection is raised for entry i
\* the existence checks of entries 1..i have completed and no later entry
\* has been checked.
C20_ExistenceBeforeSelfPerEntry ==
    \A a \in ValidationArgs :
        LET checks == ValidationChecks(a)
            last == checks[Len(checks)]
        IN /\ CycleOnlyForValidLists(a)
           /\ \A k \in DOMAIN checks :
                 checks[k].check = "self" =>
                    /\ k > 1
                    /\ checks[k - 1] = CheckEvent("existence", checks[k].entry, FALSE)
           /\ \A k \in DOMAIN checks :
                 checks[k].check = "existence" =>
                    /\ \A j \in 1..(checks[k].entry - 1) :
                          /\ Position(checks, "existence", j) \in 1..(k - 1)
                          /\ Position(checks, "self", j) \in 1..(k - 1)
                    /\ Position(checks, "duplicates", 0) \in 1..(k - 1)
           /\ (last.check = "self" /\ last.raised) =>
                 \A i \in DOMAIN a[3].list :
                    IF i <= last.entry
                    THEN Position(checks, "existence", i) \in 1..(Len(checks) - 1)
                    ELSE Position(checks, "existence", i) = 0

\* An update whose list names the operator itself first and an id that is
\* no operator second: rejected for the self-reference, the second entry
\* never looked up; and a valid list that reaches the cycle detector.
C20_Witness ==
    /\ \E a \in ValidationArgs :
          LET checks == ValidationChecks(a)
          IN /\ a[3].kind = "list" /\ Len(a[3].list) = 2
             /\ a[3].list[1] = a[1]
             /\ a[3].list[2] \notin DOMAIN operators
             /\ checks[Len(checks)] = CheckEvent("self", 1, TRUE)
    /\ \E a \in ValidationArgs :
          LET checks == ValidationChecks(a)
          IN /\ a[3].kind = "list" /\ Len(a[3].list) = 2
             /\ checks[Len(checks)] = CheckEvent("cycle", 0, TRUE)

----------------------------------------------------------------------------
\* The store between two calls of one update_dependencies call
\* (specification SpecSync).

\* The effect of one recorded store call.
ApplyCall(E, c) ==
    IF c.call = "create_dependency" THEN create_dependency(E, c.operator_id, c.arg)
    ELSE delete_dependency(E, c.arg)

RECURSIVE Replay(_, _, _)
\* The store after the first k calls.
Replay(E, calls, k) ==
    IF k = 0 THEN E ELSE ApplyCall(Replay(E, calls, k - 1), calls[k])

Smaller(m, n) == IF m <= n THEN m ELSE n

\* C21: within one update_dependencies call every create_dependency call
\* comes before every delete_dependency call, and after each call the
\* operator's stored targets include every target that is both current and
\* requested and are at least as many as the smaller of the two sets.
C21_AddsBeforeRemoves ==
    sync.done =>
        /\ \A i, j \in DOMAIN sync.calls :
              (sync.calls[i].call = "create_dependency"
               /\ sync.calls[j].call = "delete_dependency") => i < j
        /\ \A k \in 0..Len(sync.calls) :
              LET now == Targets(Replay(sync.before, sync.calls, k), sync.operator_id)
              IN /\ (SyncCurrent \cap SyncTarget) \subseteq now
                 /\ Cardinality(now) >= Smaller(Cardinality(SyncCurrent),
                                                Cardinality(SyncTarget))
        /\ Replay(sync.before, sync.calls, Len(sync.calls)) = edges

\* A call that kept an edge, created two and deleted one.
C21_Witness ==
    /\ sync.done
    /\ SyncCurrent \cap SyncTarget # {}
    /\ Cardinality({i \in DOMAIN sync.calls : sync.calls[i].call = "create_dependency"}) >= 1
    /\ Cardinality({i \in DOMAIN sync.calls : sync.calls[i].call = "delete_dependency"}) >= 1
    /\ Cardinality(SyncCurrent) = 2

----------------------------------------------------------------------------
\* What the accepted requests leave in the store.

\* The list D of a create request (None stands for the empty list).
RequestedList(dependencies) ==
    IF dependencies.kind = "list" THEN dependencies.list ELSE <<>>

\* C22: after create_operator is accepted with dependency list D, the new
\* operator is stored in the experiment, its stored dependency set is D,
\* the "dependencies" field of the response is D, and the operator row is
\* written before any of its edges.
C22_CreateStoresNodeThenEdges ==
    \A a \in CreateArgs :
        LET r == CreateOutcome(a)
            D == RequestedList(a[5])
            calls == create_operator_calls(operators, edges, a[1], a[2], a[3], a[4], a[5])
        IN r.status = "OK" =>
              /\ r.uuid \notin DOMAIN operators
              /\ r.uuid \in DOMAIN r.operators
              /\ r.operators[r.uuid].experiment_id = a[2]
              /\ \A u \in DOMAIN operators : r.operators[u] = operators[u]
              /\ Targets(r.edges, r.uuid) = Range(D)
              /\ {e \in r.edges : e.operator_id # r.uuid} = edges
              /\ r.dependencies = D
              /\ calls[1] = AddOperatorCall(r.uuid)
              /\ Len(calls) = 1 + Len(D)
              /\ \A k \in 2..Len(calls) :
                    calls[k] = CreateCall(r.uuid, D[k - 1])

\* An accepted create request with two dependencies.
C22_Witness ==
    \E a \in CreateArgs :
        /\ CreateOutcome(a).status = "OK"
        /\ Len(RequestedList(a[5])) = 2
        /\ edges # {}

\* The dependency checks an update request can fail.
DependencyReasons == {"shape", "duplicates", "existence", "self", "cycle"}

\* The request got as far as update_dependencies (line 132): it was accepted,
\* or rejected only by the later update of the fields.
PassedValidation(r) == r.status = "OK" \/ r.reason = "fields"

\* C23: update_operator called without a dependency list leaves every stored
\* edge unchanged and fails no dependency check or cycle check; called with
\* the empty list and not rejected by an earlier check, it removes all
\* outgoing edges of the operator (and no edge of another operator).
C23_AbsentKeepsEmptyClears ==
    \A a \in UpdateArgs :
        LET r == UpdateOutcome(a)
        IN /\ a[5] = DependenciesAbsent =>
                 /\ r.edges = edges
                 /\ r.reason \notin DependencyReasons
                 /\ r.status # "KeyError"
           /\ (a[5] = DependenciesList(<<>>) /\ PassedValidation(r)) =>
                 /\ Targets(r.edges, a[1]) = {}
                 /\ {e \in r.edges : e.operator_id # a[1]}
                      = {e \in edges : e.operator_id # a[1]}

\* Both cases on an operator that has stored dependencies: an accepted update
\* without a list, and an update with the empty list.
C23_Witness ==
    \E a, b \in UpdateArgs :
        /\ a[1] = b[1]
        /\ Targets(edges, a[1]) # {}
        /\ a[5] = DependenciesAbsent
        /\ UpdateOutcome(a).status = "OK"
        /\ b[5] = DependenciesList(<<>>)
        /\ UpdateOutcome(b).status = "OK"
        /\ Cardinality(edges) > Cardinality(UpdateOutcome(b).edges)

----------------------------------------------------------------------------
\* delete_operator on the acyclic graphs of one experiment with MaxDeleteOps
\* operators (enough for an operator with two consumers and two prerequisites).

MaxDeleteOps == 5
DeleteOpIds == 1..MaxDeleteOps
DeleteOperators == [u \in DeleteOpIds |-> OperatorRow("e1", "t1", EmptyDict)]
DeleteEdgeRow(a, b) ==
    [uuid |-> (a - 1) * MaxDeleteOps + b, operator_id |-> a, dependency |-> b]

\* The graphs left by creating the operators one after the other, each with
\* a list of operators created before it.
DeleteEdgeSets ==
    {{DeleteEdgeRow(p[1], p[2]) : p \in P} :
        P \in SUBSET {p \in DeleteOpIds \X DeleteOpIds : p[2] < p[1]}}

InitDelete ==
    /\ operators = DeleteOperators
    /\ edges \in DeleteEdgeSets
    /\ sync = SyncIdle
    /\ check = CheckIdle
    /\ stat = StatIdle
    /\ tasks = <<>>
    /\ storage = NoFiles
    /\ race = RaceIdle

DeleteStored ==
    /\ DOMAIN operators = DeleteOpIds
    /\ \E uuid \in DeleteOpIds :
        LET r == delete_operator(operators, edges, uuid, "p1", "e1")
        IN /\ operators' = r.operators
           /\ edges' = r.edges
    /\ UNCHANGED <<sync, check>>
    /\ UNCHANGED <<stat, tasks, storage, race>>

SpecDelete == InitDelete /\ [][DeleteStored]_vars

DeleteStoredOutcome(N) == delete_operator(operators, edges, N, "p1", "e1")

\* C24: when the deleted operator N has no dependencies, every former
\* consumer of N stays stored with its old dependency set minus N and gets no
\* replacement edge; when N has two consumers and two prerequisites, each
\* consumer depends on both prerequisites after the deletion.
C24_DeleteSourceAndDiamond ==
    \A N \in DOMAIN operators :
        LET r == DeleteStoredOutcome(N)
            consumers == Sources(edges, N)
            prerequisites == Targets(edges, N)
        IN /\ prerequisites = {} =>
                 /\ r.status = "OK"
                 /\ N \notin DOMAIN r.operators
                 /\ \A c \in consumers :
                       /\ c \in DOMAIN r.operators
                       /\ Targets(r.edges, c) = Targets(edges, c) \ {N}
           /\ (Cardinality(consumers) = 2 /\ Cardinality(prerequisites) = 2) =>
                 /\ r.status = "OK"
                 /\ \A c \in consumers :
                       /\ c \in DOMAIN r.operators
                       /\ prerequisites \subseteq Targets(r.edges, c)
                       /\ N \notin Targets(r.edges, c)

\* A store holding both cases: an operator without dependencies that has two
\* consumers, and an operator with two consumers and two prerequisites.
C24_Witness ==
    /\ DOMAIN operators = DeleteOpIds
    /\ \E N \in DeleteOpIds :
          /\ Targets(edges, N) = {}
          /\ Cardinality(Sources(edges, N)) = 2
          /\ DeleteStoredOutcome(N).status = "OK"
    /\ \E N \in DeleteOpIds :
          /\ Cardinality(Targets(edges, N)) = 2
          /\ Cardinality(Sources(edges, N)) = 2
          /\ \A c \in Sources(edges, N) : Targets(edges, c) = {N}
          /\ DeleteStoredOutcome(N).status = "OK"

----------------------------------------------------------------------------
\* Validation as a function of the request and the stored graph.

\* Every order in which the rows of the experiment's operators can be listed.
Orders(ops) ==
    {[i \in DOMAIN ops |-> ops[p[i]]] : p \in Permutations(DOMAIN ops)}

\* raise_if_has_cycles with the operators enumerated in the order ops.
CycleVerdictInOrder(ops, operator_id, dependencies) ==
    OperatorLoop(edges, ops, 1, [u \in Range(ops) |-> FALSE],
                 [u \in Range(ops) |-> FALSE], dependencies, operator_id)

Accepts(status) == status \in {"OK", "False"}

\* The requests whose validation is retried or preceded by another call.
LaterArgs == (DOMAIN operators) \X ExperimentIds \X {DependenciesList(l) : l \in CallLists}
EarlierArgs == {a \in CycleCheckArgs : a[1] \in ProjectIds /\ a[2] \in ExperimentIds}

\* C25: validation is a function of the arguments and the stored graph: the
\* cycle check accepts or rejects alike for every order in which the
\* experiment's operators are enumerated, a validation gives the same verdict
\* after any earlier validation call as before it, and a rejected update
\* request tried again on the store it left is rejected again.
C25_ValidationDeterministic ==
    /\ \A experiment_id \in ExperimentIds, operator_id \in RequestOpIds,
          dependencies \in CallLists :
          \A ops \in Orders(list_operators(operators, experiment_id)) :
              Accepts(CycleVerdictInOrder(ops, operator_id, dependencies))
                 <=> Accepts(raise_if_has_cycles(operators, edges, experiment_id,
                                                 operator_id, dependencies))
    /\ \A b \in EarlierArgs :
          LET s == CycleCheckOutcome(b)
          IN \A a \in LaterArgs :
                raise_if_dependencies_are_invalid(s.operators, s.edges, a[2], a[3], a[1])
                   = raise_if_dependencies_are_invalid(operators, edges, a[2], a[3], a[1])
    /\ \A a \in UpdateArgs :
          LET r == UpdateOutcome(a)
              again == update_operator(r.operators, r.edges, a[1], a[2], a[3],
                                       Kwargs(a[4], a[5], a[6]))
          IN (r.status # "OK" /\ r.reason \in ValidationReasons) =>
                (again.status = r.status /\ again.reason = r.reason)

\* Three operators of one experiment with a stored edge; one list is
\* rejected for a cycle, another is accepted, in every enumeration order.
C25_Witness ==
    /\ Cardinality({u \in DOMAIN operators : operators[u].experiment_id = "e1"}) = 3
    /\ edges # {}
    /\ \E operator_id \in DOMAIN operators, l1, l2 \in CallLists :
          /\ raise_if_dependencies_are_invalid(operators, edges, "e1",
                 DependenciesList(l1), operator_id) = Verdict("BadRequest", "cycle")
          /\ raise_if_dependencies_are_invalid(operators, edges, "e1",
                 DependenciesList(l2), operator_id) = Passed
          /\ l2 # <<>>

----------------------------------------------------------------------------
\* Parameter validation on dicts of every value type.

TypedNames == {"p", "q"}
TypedValues == {PyValue(t, "v") : t \in ValidParameterTypes \cup {"NoneType"}}
TypedDicts == UNION {[K -> TypedValues] : K \in SUBSET TypedNames}
TypedParameterArgs == {ParametersNotADict} \cup {ParametersDict(d) : d \in TypedDicts}

\* Not a mapping, or a mapping holding a value of none of the six kinds.
InvalidParameters(parameters) ==
    \/ ~parameters.isdict
    \/ \E k \in DOMAIN parameters.items :
          parameters.items[k].type \notin {"str", "int", "float", "bool", "list", "dict"}

\* The earlier checks of a create request pass.
ReachesCreateParameters(a) ==
    a[1] \in ProjectIds /\ a[2] \in ExperimentIds /\ a[3] \in TaskIds

\* C26: create_operator and update_operator reject with BadRequest, leaving
\* the store as it was, a parameters value that is not a mapping or holds a
\* value that is no str, int, float, bool, list or mapping (null included); a
\* mapping whose values are all of those kinds passes parameter validation.
C26_ParametersValidated ==
    /\ \A parameters \in TypedParameterArgs :
          LET v == raise_if_parameters_are_invalid(parameters)
              c == create_operator(operators, edges, "p1", "e1", "t1", parameters,
                                   DependenciesAbsent)
          IN /\ InvalidParameters(parameters) =>
                   /\ v = Verdict("BadRequest", "parameters")
                   /\ c.status = "BadRequest" /\ c.reason = "parameters"
                   /\ c.operators = operators /\ c.edges = edges
                   /\ \A uuid \in DOMAIN operators :
                         LET u == update_operator(operators, edges, uuid, "p1", "e1",
                                      Kwargs(parameters, DependenciesList(<<>>), "valid"))
                         IN /\ u.status = "BadRequest" /\ u.reason = "parameters"
                            /\ u.operators = operators /\ u.edges = edges
             /\ ~InvalidParameters(parameters) =>
                   /\ v = Passed
                   /\ c.reason # "parameters"
                   /\ c.status = "OK" => c.operators[c.uuid].parameters = parameters.items
                   /\ \A uuid \in DOMAIN operators :
                         LET u == update_operator(operators, edges, uuid, "p1", "e1",
                                      Kwargs(parameters, DependenciesAbsent, "valid"))
                         IN u.status = "OK" /\ u.operators[uuid].parameters = parameters.items
    /\ \A a \in CreateArgs :
          LET r == CreateOutcome(a)
          IN (ReachesCreateParameters(a) /\ a[4].given /\ InvalidParameters(a[4])) =>
                /\ r.status = "BadRequest" /\ r.reason = "parameters"
                /\ r.operators = operators /\ r.edges = edges
    /\ \A a \in UpdateArgs :
          LET r == UpdateOutcome(a)
          IN (a[2] \in ProjectIds /\ a[3] \in ExperimentIds /\ a[1] \in DOMAIN operators
                /\ a[4].given /\ InvalidParameters(a[4])) =>
                /\ r.status = "BadRequest" /\ r.reason = "parameters"
                /\ r.operators = operators /\ r.edges = edges

\* A store with an operator that has dependencies, on which an update with a
\* null-valued mapping and a dependency list is rejected.
C26_Witness ==
    \E a \in UpdateArgs :
        /\ a[1] \in DOMAIN operators
        /\ Targets(edges, a[1]) # {}
        /\ a[4] = ParametersDict([k \in {"p"} |-> PyValue("NoneType", "")])
        /\ a[5] = DependenciesList(<<>>)
        /\ UpdateOutcome(a).status = "BadRequest"
        /\ UpdateOutcome(a).reason = "parameters"

----------------------------------------------------------------------------
\* Completeness of a configured operator.

\* The schema parameters an operator has to fill: all but 'dataset'.
RequiredParameters(comp_params) == Range(comp_params) \ {"dataset"}

\* C27 (as claimed): for a task not tagged DATASETS, check_status sets
\* 'Setted up' only if every schema parameter other than 'dataset' has a
\* non-empty value in the operator's parameters, whatever other keys the
\* parameters hold.
C27_SetUpOnlyWhenComplete ==
    (stat.done /\ "DATASETS" \notin Range(stat.tags) /\ stat.status = "Setted up") =>
        \A name \in RequiredParameters(stat.comp_params) :
            /\ name \in DOMAIN stat.parameters
            /\ Filled(stat.parameters[name])

----------------------------------------------------------------------------
\* The overlay searched by the cycle check and the graph an update commits.

\* The list passed the duplicate, existence and self checks.
PassedListChecks ==
    /\ NoDuplicates(check.dependencies)
    /\ Range(check.dependencies) \subseteq DOMAIN operators
    /\ check.operator_id \notin Range(check.dependencies)

\* C28: on an acyclic stored graph, for a list that passed the duplicate,
\* existence and self checks, the cycle check (searching the union of the
\* operator's stored edges and the list) reports a cycle exactly when the
\* graph with the operator's outgoing edges replaced by the list has a cycle.
C28_OverlayIffReplaced ==
    (check.done /\ PassedListChecks) =>
        /\ check.ret \in {"False", "BadRequest"}
        /\ check.ret = "BadRequest"
              <=> ~Acyclic(Replaced(edges, check.operator_id, check.dependencies))

\* The operator has a stored edge that the list drops, so the union differs
\* from the replaced graph, and the check accepted the list.
C28_Witness ==
    /\ check.done
    /\ PassedListChecks
    /\ check.dependencies # <<>>
    /\ Targets(edges, check.operator_id) \ Range(check.dependencies) # {}
    /\ Nodes(edges) = OpIds
    /\ check.ret = "False"

----------------------------------------------------------------------------
\* The store between two edge writes of one request.

Sound(E) == Acyclic(E) /\ NoSelfEdge(E) /\ NoDuplicateEdge(E)

UpdateCalls(a) == update_dependencies(edges, a[1], a[5].list).calls
DeleteCalls(a) ==
    delete_dependencies_calls(edges, a[1], as_dict_dependencies(edges, a[1]))

\* C29: with every create_dependency and delete_dependency call taken as a
\* step of its own, the store after each call of an accepted update_operator
\* and of an accepted delete_operator is acyclic and has no self edge and no
\* duplicate edge, when the store before the request was so.
C29_IntermediateStoresSound ==
    Sound(edges) =>
        /\ \A a \in UpdateArgs :
              LET r == UpdateOutcome(a)
              IN (r.status = "OK" /\ a[5].kind = "list") =>
                    /\ \A k \in 0..Len(UpdateCalls(a)) :
                          Sound(Replay(edges, UpdateCalls(a), k))
                    /\ Replay(edges, UpdateCalls(a), Len(UpdateCalls(a))) = r.edges
        /\ \A a \in DeleteArgs :
              LET r == DeleteOutcome(a)
              IN r.status = "OK" =>
                    /\ \A k \in 0..Len(DeleteCalls(a)) :
                          Sound(Replay(edges, DeleteCalls(a), k))
                    /\ Replay(edges, DeleteCalls(a), Len(DeleteCalls(a))) = r.edges

\* An accepted update that creates an edge and deletes another, and an
\* accepted delete of an operator that has a consumer and a dependency.
C29_Witness ==
    /\ Sound(edges)
    /\ \E a \in UpdateArgs :
          /\ UpdateOutcome(a).status = "OK"
          /\ a[5].kind = "list"
          /\ \E i, j \in DOMAIN UpdateCalls(a) :
                /\ UpdateCalls(a)[i].call = "create_dependency"
                /\ UpdateCalls(a)[j].call = "delete_dependency"
    /\ \E a \in DeleteArgs :
          /\ DeleteOutcome(a).status = "OK"
          /\ Len(DeleteCalls(a)) >= 3

----------------------------------------------------------------------------
\* The operator of a request and the experiment of the request.

\* The request names a stored operator of another experiment than its own.
ForeignOperator(uuid, project_id, experiment_id) ==
    /\ project_id \in ProjectIds
    /\ experiment_id \in ExperimentIds
    /\ uuid \in DOMAIN operators
    /\ operators[uuid].experiment_id # experiment_id

\* C30 (as claimed): update_operator and delete_operator act only on an
\* operator of the experiment named in the request; a request whose uuid
\* names an operator of a different experiment is rejected and changes no
\* operator and no edge.
C30_OperatorOfRequestExperiment ==
    /\ \A a \in UpdateArgs :
          LET r == UpdateOutcome(a)
          IN ForeignOperator(a[1], a[2], a[3]) =>
                (r.status # "OK" /\ r.operators = operators /\ r.edges = edges)
    /\ \A a \in DeleteArgs :
          LET r == DeleteOutcome(a)
          IN ForeignOperator(a[1], a[2], a[3]) =>
                (r.status # "OK" /\ r.operators = operators /\ r.edges = edges)

----------------------------------------------------------------------------
\* The edges a request leaves alone.

\* The stored rows whose source is none of the operators in S.
RowsOutside(E, S) == {e \in E : e.operator_id \notin S}

\* C31: update_operator(X) changes only edges whose source is X;
\* delete_operator(N) changes only edges whose source is N or an operator
\* that had an edge to N; create_operator changes no edge of an operator
\* stored before. The rows of every other operator, of any experiment, stay
\* as they were.
C31_OnlyOwnEdgesChange ==
    /\ \A a \in UpdateArgs :
          LET r == UpdateOutcome(a)
          IN RowsOutside(r.edges, {a[1]}) = RowsOutside(edges, {a[1]})
    /\ \A a \in DeleteArgs :
          LET r == DeleteOutcome(a)
              touched == {a[1]} \cup Sources(edges, a[1])
          IN RowsOutside(r.edges, touched) = RowsOutside(edges, touched)
    /\ \A a \in CreateArgs :
          LET r == CreateOutcome(a)
          IN RowsOutside(r.edges, DOMAIN r.operators \ DOMAIN operators) = edges

\* Two operators hold an edge to a third: an accepted update of one drops
\* its edge while the other keeps its own, and an accepted delete removes an
\* operator that has a consumer.
C31_Witness ==
    /\ \E a \in UpdateArgs :
          /\ UpdateOutcome(a).status = "OK"
          /\ a[5].kind = "list"
          /\ \E d \in Targets(edges, a[1]) \ Range(a[5].list) :
                Sources(edges, d) \ {a[1]} # {}
    /\ \E a \in DeleteArgs :
          /\ DeleteOutcome(a).status = "OK"
          /\ Sources(edges, a[1]) # {}

----------------------------------------------------------------------------
\* The cycle check step by step: the loop of raise_if_has_cycles and the
\* frames of has_cycles_util, on every stored graph of the experiment's
\* operators, cyclic ones included. The search state is kept in check:
\* ops and k are the operators and the position of the loop over them, frames
\* the active calls of has_cycles_util (innermost last, each with its list
\* and the position i of its loop), returned the value a call has just
\* returned to its caller, and entered the number of calls made per operator.

\* has_cycles_util(operator_id, ...) is called: lines 263-270.
has_cycles_util_enter(c, E, operator_id) ==
    LET stored == as_dict_dependencies(E, operator_id)
        dependencies ==
            IF operator_id = c.operator_id
            THEN stored \o SetToSeq(Range(c.dependencies) \ Range(stored))
            ELSE stored
    IN [c EXCEPT !.visited[operator_id] = TRUE,
                 !.recursion_stack[operator_id] = TRUE,
                 !.entered[operator_id] = @ + 1,
                 !.frames = Append(@, [operator_id |-> operator_id,
                                       dependencies |-> dependencies, i |-> 1])]

\* The innermost call returns value to its caller.
has_cycles_util_return(c, value) ==
    [c EXCEPT !.frames = SubSeq(@, 1, Len(@) - 1), !.returned = value]

\* The innermost call goes on to its next neighbour.
has_cycles_util_next(c) ==
    [c EXCEPT !.frames[Len(c.frames)].i = @ + 1, !.returned = "none"]

\* Variant of the loop of raise_if_has_cycles that calls has_cycles_util for
\* every operator, visited or not.
raise_if_has_cycles_loop_mutant_revisit(c, E) ==
    IF c.k > Len(c.ops) THEN [c EXCEPT !.done = TRUE, !.ret = "False"]
    ELSE has_cycles_util_enter(c, E, c.ops[c.k])

\* for op in operators: if visited[op_uuid] is False and has_cycles_util(...)
\* (lines 299-304), up to the call; return False when the loop is over.
raise_if_has_cycles_loop(c, E) ==
    IF c.k > Len(c.ops) THEN [c EXCEPT !.done = TRUE, !.ret = "False"]
    ELSE IF c.visited[c.ops[c.k]] = FALSE
    THEN has_cycles_util_enter(c, E, c.ops[c.k])
    ELSE [c EXCEPT !.k = @ + 1]

\* for neighbour in dependencies (lines 275-282), up to the call for an
\* unvisited neighbour; recursion_stack[operator_id] = False and return False
\* when the loop is over.
has_cycles_util_loop(c, E) ==
    LET frame == c.frames[Len(c.frames)]
    IN IF frame.i > Len(frame.dependencies)
       THEN has_cycles_util_return(
               [c EXCEPT !.recursion_stack[frame.operator_id] = FALSE], "False")
       ELSE LET neighbour == frame.dependencies[frame.i]
            IN IF c.visited[neighbour] = FALSE
               THEN has_cycles_util_enter(c, E, neighbour)
               ELSE IF c.recursion_stack[neighbour]
               THEN has_cycles_util_return(c, "True")
               ELSE has_cycles_util_next(c)

\* A call has returned: to raise_if_has_cycles (lines 301-303), which raises
\* on True, or to the calling has_cycles_util (lines 276-279), which returns
\* True on True and otherwise tests recursion_stack[neighbour].
has_cycles_util_returned(c) ==
    IF c.frames = <<>>
    THEN IF c.returned = "True"
         THEN [c EXCEPT !.done = TRUE, !.ret = "BadRequest", !.returned = "none"]
         ELSE [c EXCEPT !.k = @ + 1, !.returned = "none"]
    ELSE LET frame == c.frames[Len(c.frames)]
             neighbour == frame.dependencies[frame.i]
         IN IF c.returned = "True" THEN has_cycles_util_return(c, "True")
            ELSE IF c.recursion_stack[neighbour]
            THEN has_cycles_util_return(c, "True")
            ELSE has_cycles_util_next(c)

\* The search state when raise_if_has_cycles has built its dicts (296-297).
SearchStart(O, operator_id, dependencies) ==
    LET ops == list_operators(O, "e1")
    IN [done |-> FALSE, ret |-> "", operator_id |-> operator_id,
        dependencies |-> dependencies, ops |-> ops, k |-> 1,
        visited |-> [u \in Range(ops) |-> FALSE],
        recursion_stack |-> [u \in Range(ops) |-> FALSE],
        frames |-> <<>>, returned |-> "none",
        entered |-> [u \in Range(ops) |-> 0]]

InitSearch ==
    /\ operators = AllOperators
    /\ edges \in EdgeSets
    /\ sync = SyncIdle
    /\ \E operator_id \in OpIds, dependencies \in CallLists :
          check = SearchStart(operators, operator_id, dependencies)
    /\ stat = StatIdle
    /\ tasks = <<>>
    /\ storage = NoFiles
    /\ race = RaceIdle

SearchOperators ==
    /\ ~check.done /\ check.frames = <<>> /\ check.returned = "none"
    /\ check' = raise_if_has_cycles_loop(check, edges)
    /\ UNCHANGED <<operators, edges, sync, stat, tasks, storage, race>>

SearchNeighbours ==
    /\ ~check.done /\ check.frames # <<>> /\ check.returned = "none"
    /\ check' = has_cycles_util_loop(check, edges)
    /\ UNCHANGED <<operators, edges, sync, stat, tasks, storage, race>>

SearchReturned ==
    /\ ~check.done /\ check.returned # "none"
    /\ check' = has_cycles_util_returned(check)
    /\ UNCHANGED <<operators, edges, sync, stat, tasks, storage, race>>

NextSearch == SearchOperators \/ SearchNeighbours \/ SearchReturned

\* The interpreter keeps running the call until it returns or raises.
SpecSearch == InitSearch /\ [][NextSearch]_vars /\ WF_vars(NextSearch)

\* has_cycles_util was called at most once per operator, and a finished
\* check raised or returned False with every operator visited; its result is
\* the one raise_if_has_cycles computes.
SearchBounded ==
    /\ \A u \in DOMAIN check.entered : check.entered[u] <= 1
    /\ check.done =>
          /\ \/ check.ret = "BadRequest"
             \/ /\ check.ret = "False"
                /\ \A u \in Range(check.ops) : check.visited[u]
          /\ check.ret = raise_if_has_cycles(operators, edges, "e1",
                                             check.operator_id, check.dependencies)

\* Once a call has found a cycle, no further call of has_cycles_util is made.
RaisesAtFirstCycle ==
    [][check.returned = "True" => check'.entered = check.entered]_vars

\* C32: the cycle check terminates on every graph of the experiment's
\* operators, stored cycles included: has_cycles_util is entered at most
\* once per operator, and raise_if_has_cycles raises at the first cycle found
\* or returns False after every operator has been visited.
C32_SearchTerminates == []SearchBounded /\ RaisesAtFirstCycle /\ <>check.done

\* The check of a stored graph that has a cycle ended by raising, before
\* every operator was entered.
C32_Witness ==
    /\ check.done
    /\ ~Acyclic(edges)
    /\ check.ret = "BadRequest"
    /\ \E u \in DOMAIN check.entered : check.entered[u] = 0
    /\ \E u \in DOMAIN check.entered : check.entered[u] = 1

----------------------------------------------------------------------------
\* Task names (specification SpecTasks).

\* Some stored task other than uuid has the name.
NameHeldByOther(name, uuid) ==
    \E u \in DOMAIN tasks \ {uuid} : tasks[u].name = name

\* The request leaves the table and the files as they were.
TaskStoreUnchanged(r) == r.tasks = tasks /\ r.storage = storage

\* C33: no two stored tasks have the same name; a create_task (with or
\* without copy_from) or a rename to a name another task holds is rejected
\* with BadRequest and changes nothing; an update that keeps the task's own
\* name is not rejected for the name and, its other arguments being valid,
\* is accepted.
C33_TaskNamesUnique ==
    /\ \A u, v \in DOMAIN tasks : tasks[u].name = tasks[v].name => u = v
    /\ \A a \in CreateTaskArgs :
          LET r == CreateTaskOutcome(a)
          IN NameHeldByOther(a[1], NoId) =>
                (r.status = "BadRequest" /\ TaskStoreUnchanged(r))
    /\ \A a \in UpdateTaskArgs :
          LET r == UpdateTaskOutcome(a)
          IN a[1] \in DOMAIN tasks =>
                /\ NameHeldByOther(a[2], a[1]) =>
                      /\ r.status = "BadRequest" /\ r.reason = "exists"
                      /\ TaskStoreUnchanged(r)
                /\ a[2] = tasks[a[1]].name =>
                      /\ r.reason # "exists"
                      /\ (a[3] = TagsAbsent /\ a[5] = "valid") =>
                            (r.status = "OK" /\ r.tasks[a[1]].name = a[2])

\* Two stored tasks: a create with a held name (copying a stored task) and
\* a rename to the other task's name are rejected, and an update keeping
\* the own name is accepted.
C33_Witness ==
    /\ Cardinality(DOMAIN tasks) = 2
    /\ \E a \in UpdateTaskArgs :
          /\ a[1] \in DOMAIN tasks
          /\ NameHeldByOther(a[2], a[1])
          /\ UpdateTaskOutcome(a).reason = "exists"
    /\ \E a \in UpdateTaskArgs :
          /\ a[1] \in DOMAIN tasks
          /\ a[2] = tasks[a[1]].name
          /\ UpdateTaskOutcome(a).status = "OK"
    /\ \E a \in CreateTaskArgs :
          /\ a[4] \in DOMAIN tasks
          /\ CreateTaskOutcome(a).reason = "exists"

====
